---------------------------- MODULE Spec2Model ----------------------------
(***************************************************************************)
(* Model of the USB device control-transfer engine of stm-common:          *)
(* ControlState (src/src/usb/control.rs), the interrupt dispatcher         *)
(* USB_State::isr (src/src/usb.rs) and the endpoint register / buffer      *)
(* descriptor interface (src/src/usb/hardware.rs), together with the USB   *)
(* peripheral and host that drive them.                                    *)
(*                                                                         *)
(* Software runs in one interrupt context.  Every handler is one atomic    *)
(* action; the peripheral (host traffic, bus reset, start of frame) acts   *)
(* between the steps of the dispatcher.                                    *)
(***************************************************************************)
EXTENDS Integers, Sequences, FiniteSets, TLC

(* ------------------------------ bounds --------------------------------- *)

\* Largest payload length and largest wLength that is modelled.
MaxLen == 128

(* ------------------------- program constants --------------------------- *)

MaxPacket      == 64    \* control endpoint packet size
MinSetupLen    == 8     \* a SETUP must report at least this many bytes
NumEndpoints   == 7     \* ep1 .. ep7
CTRL_RX_OFFSET == 192   \* 0xc0
CTRL_TX_OFFSET == 128   \* 0x80
DeviceDescLen  == 18    \* size_of::<DeviceDesc>()

StatDisabled == 0
StatStall    == 1
StatNak      == 2
StatValid    == 3

(* ------------------------------ helpers -------------------------------- *)

Min(a, b) == IF a < b THEN a ELSE b

\* Bitwise exclusive or of two 2-bit values (STATRX / STATTX fields).
Xor2(a, b) ==
    (((a % 2) + (b % 2)) % 2) + 2 * (((a \div 2) + (b \div 2)) % 2)

\* Exclusive or of two single bits held as booleans (DTOGRX / DTOGTX).
XorB(a, b) == a # b

IsPrefix(s, t) == Len(s) <= Len(t) /\ \A i \in 1..Len(s) : s[i] = t[i]

(* --------------------------- value types ------------------------------- *)

\* SetupHeader::default(): all fields zero.
DefaultHeader ==
    [request_type |-> 0, request |-> 0, value_lo |-> 0, value_hi |-> 0,
     index |-> 0, length |-> 0]

\* A SetupResult.  tag "Tx": data is the slice src[off .. off+len), cb the
\* optional completion callback.  tag "Rx": len is the expected length, cb the
\* optional completion predicate (src and off are unused).
TxResult(src, off, len, cb) ==
    [tag |-> "Tx", src |-> src, off |-> off, len |-> len, cb |-> cb]

RxResult(len, cb) ==
    [tag |-> "Rx", src |-> "", off |-> 0, len |-> len, cb |-> cb]

\* SetupResult::default() = Rx(0, None)
DefaultResult == RxResult(0, "None")

\* SetupResult::error() = Rx(0, None)
ErrorResult == RxResult(0, "None")

\* SetupResult::tx_data(&T): size_of::<T>() bytes of the value, no callback.
tx_data(src, size) == TxResult(src, 0, size, "None")

\* SetupResult::tx_data_cb(&T, cb)
tx_data_cb(src, size, cb) == TxResult(src, 0, size, cb)

\* SetupResult::no_data() = tx_data(&())
no_data == tx_data("unit", 0)

\* SetupResult::no_data_cb(cb) = tx_data_cb(&(), cb)
no_data_cb(cb) == tx_data_cb("unit", 0, cb)

\* The bytes behind the static values the engine itself transmits.
StaticBytes(src) ==
    CASE src = "zero_u16" -> <<0, 0>>
      [] src = "unit"     -> <<>>
      [] OTHER            -> <<>>

\* ControlState::default()
DefaultControl ==
    [setup           |-> DefaultHeader,
     setup_data      |-> DefaultResult,
     setup_short     |-> FALSE,
     pending_address |-> "None",
     configured      |-> FALSE,
     pending_rx_cb   |-> "None",
     pending_tx_cb   |-> "None"]

(* ---------------- endpoint register / buffer descriptors --------------- *)

\* CHEP0 after a peripheral reset.
ChepReset ==
    [STATRX |-> StatDisabled, STATTX |-> StatDisabled,
     DTOGRX |-> FALSE, DTOGTX |-> FALSE,
     VTRX |-> FALSE, VTTX |-> FALSE, SETUP |-> FALSE]

\* A write value built without endpoint(): the transaction-complete flags
\* keep the 0 of the writer's reset value.
control_flags_zero ==
    [STATRX |-> 0, STATTX |-> 0, DTOGRX |-> FALSE, DTOGTX |-> FALSE,
     VTRX |-> FALSE, VTTX |-> FALSE]

\* CheprWriter::endpoint(0, 1) through control(): a write value that toggles
\* nothing and keeps both transaction-complete flags (written as 1).
control ==
    [STATRX |-> 0, STATTX |-> 0, DTOGRX |-> FALSE, DTOGTX |-> FALSE,
     VTRX |-> TRUE, VTTX |-> TRUE]

\* stat_rx that writes the wanted status itself.
stat_rx_absolute(w, c, v) == [w EXCEPT !.STATRX = v]

\* CheprWriter::stat_rx(c, v): write the bits that differ from the value read.
stat_rx(w, c, v) == [w EXCEPT !.STATRX = Xor2(c.STATRX, v)]

\* CheprWriter::stat_tx(c, v)
stat_tx(w, c, v) == [w EXCEPT !.STATTX = Xor2(c.STATTX, v)]

\* CheprWriter::dtogrx(c, t)
dtogrx(w, c, t) == [w EXCEPT !.DTOGRX = XorB(c.DTOGRX, t)]

\* CheprWriter::dtogtx(c, t)
dtogtx(w, c, t) == [w EXCEPT !.DTOGTX = XorB(c.DTOGTX, t)]

\* CheprWriter::rx_valid(c) = stat_rx(c, 3)
rx_valid(w, c) == stat_rx(w, c, StatValid)

\* CheprWriter::tx_valid(c) = stat_tx(c, 3)
tx_valid(w, c) == stat_tx(w, c, StatValid)

\* VTRX().clear_bit() / VTTX().clear_bit()
clear_VTRX(w) == [w EXCEPT !.VTRX = FALSE]
clear_VTTX(w) == [w EXCEPT !.VTTX = FALSE]

\* What a register write does to the register: status and data-toggle bits
\* toggle where a 1 is written, the transaction-complete flags are cleared
\* where a 0 is written, SETUP is read-only.
ChepWrite(cur, w) ==
    [STATRX |-> Xor2(cur.STATRX, w.STATRX),
     STATTX |-> Xor2(cur.STATTX, w.STATTX),
     DTOGRX |-> XorB(cur.DTOGRX, w.DTOGRX),
     DTOGTX |-> XorB(cur.DTOGTX, w.DTOGTX),
     VTRX   |-> cur.VTRX /\ w.VTRX,
     VTTX   |-> cur.VTTX /\ w.VTTX,
     SETUP  |-> cur.SETUP]

\* chep_bd_tx(offset, len) = offset + len * 65536: a TX buffer descriptor, held
\* as its bit fields (bits 0..15 the offset, bits 16..25 the byte count).
chep_bd_tx(offset, len) == [offset |-> offset, count |-> len]

\* chep_bd_len(bd) = bd >> 16 & 0x3ff
chep_bd_len(bd) == bd.count % 1024

\* The value chep_block yields when it panics.
BlockPanic == [code |-> -1, count |-> -1, offset |-> -1]

\* chep_block that tries the sizes in units of 2 bytes before those in units
\* of 32 bytes.
chep_block_halves_first(BLK_SIZE, offset) ==
    IF offset + BLK_SIZE > 2048 THEN BlockPanic
    ELSE IF BLK_SIZE = 1023
         THEN [code |-> 63, count |-> 0, offset |-> offset]
    ELSE IF BLK_SIZE % 2 = 0 /\ BLK_SIZE < 64
         THEN [code |-> BLK_SIZE \div 2, count |-> 0, offset |-> offset]
    ELSE IF BLK_SIZE % 32 = 0 /\ BLK_SIZE > 0 /\ BLK_SIZE <= 1024
         THEN [code |-> (BLK_SIZE \div 32) + 31, count |-> 0, offset |-> offset]
    ELSE BlockPanic

\* chep_block::<BLK_SIZE>(offset): an RX buffer descriptor, held as its bit
\* fields: bits 26..31 the block-size code, bits 16..25 the received byte
\* count (zero when written by software), bits 0..15 the offset.
chep_block(BLK_SIZE, offset) ==
    IF offset + BLK_SIZE > 2048 THEN BlockPanic
    ELSE IF BLK_SIZE = 1023
         THEN [code |-> 63, count |-> 0, offset |-> offset]
    ELSE IF BLK_SIZE % 32 = 0 /\ BLK_SIZE > 0 /\ BLK_SIZE <= 1024
         THEN [code |-> (BLK_SIZE \div 32) + 31, count |-> 0, offset |-> offset]
    ELSE IF BLK_SIZE % 2 = 0 /\ BLK_SIZE < 64
         THEN [code |-> BLK_SIZE \div 2, count |-> 0, offset |-> offset]
    ELSE BlockPanic

(* ------------------------------ state ---------------------------------- *)

VARIABLES
    ctl,      \* the ControlState
    chep,     \* endpoint register CHEP0
    bd_tx,    \* bd_control().tx
    bd_rx,    \* bd_control().rx
    rxbuf,    \* the SETUP header held in the control RX buffer (CTRL_RX_BUF)
    daddr,    \* device address register DADDR
    cntr,     \* control register CNTR (power-down and interrupt masks)
    istr,     \* interrupt status register ISTR (RST_DCON and SOF flags)
    pc,       \* where the dispatcher is: "idle" or "loop"
    lat,      \* the ISTR value the dispatcher holds in its local `istr`
    calls,    \* history: the external calls made by the last step, in order
    last,     \* history: what the last step was and what it was given
    g         \* history: the current control transfer

vars == <<ctl, chep, bd_tx, bd_rx, rxbuf, daddr, cntr, istr, pc, lat,
          calls, last, g>>

\* The dispatcher's acknowledge of ISTR, bit by bit (specification IstrSpec).
VARIABLES
    ISTR,     \* the register, as the set of its bit positions that read 1
    isr_at,   \* where isr is: "idle", "read", "acked" or "loop"
    isr_istr, \* the value isr holds in its local `istr`, as a set of bits
    raised,   \* history: how often the peripheral raised each flag
    served    \* history: how often isr served each flag

istrVars == <<ISTR, isr_at, isr_istr, raised, served>>

\* The construction of a SetupHeader from memory (specification HeaderSpec).
VARIABLES
    mem,      \* the 8 bytes at the pointer, in address order
    setup_hdr, \* the SetupHeader constructed
    built     \* by which constructor: "none", "new" or "from_ptr"

headerVars == <<mem, setup_hdr, built>>

\* The UTF-16 conversion of a string (specification Utf16Spec).
VARIABLES
    text,     \* the string, as the sequence of its chars (code points)
    units,    \* what str_utf16_count returned for it
    place,    \* the buffer of u16 handed to str_to_utf16_inplace
    stage     \* "start", "counted", "filled" or "panic"

utf16Vars == <<text, units, place, stage>>

\* The transfer-complete loop of the dispatcher over all the endpoints
\* (specifications LoopSpec and LoopLive).
VARIABLES
    pend,      \* the completions pending in the peripheral, as 5-bit codes
    loop_pc,   \* where isr is: "idle" or "loop"
    loop_istr, \* the ISTR value isr holds: CTR and the low five bits
    handled,   \* history: the handlers this invocation called, in order
    reads,     \* history: how often this invocation read ISTR
    at_entry,  \* history: the completions pending when isr was entered
    left,      \* history: how the last invocation left the loop
    kept,      \* history: a handler of this invocation left its flag set
    arrived    \* history: how many completions the peripheral raised

loopVars == <<pend, loop_pc, loop_istr, handled, reads, at_entry, left, kept,
              arrived>>

\* A read-modify-write of an endpoint register through CheprWriter
\* (specification ChepSpec).
VARIABLES
    chep_read,  \* the register value read (the CheprR handed to the writer)
    chep_named, \* the targets of the write: per function a value, or -1
    chep_now,   \* the register
    chep_stage  \* "read" or "written"

chepVars == <<chep_read, chep_named, chep_now, chep_stage>>

\* The computation of an RX buffer descriptor (specification BlockSpec).
VARIABLES
    blk_size,   \* the const parameter BLK_SIZE
    blk_offset, \* the argument offset
    blk_value,  \* what chep_block returned, BlockPanic for a panic
    blk_stage   \* "call" or "done"

blockVars == <<blk_size, blk_offset, blk_value, blk_stage>>

\* The ring buffer of the debug output between write_bytes and the UART
\* interrupt (specification RingSpec).
VARIABLES
    ring_w,      \* Debug.w: the write index, as published
    ring_r,      \* Debug.r: the read index
    ring_lw,     \* write_bytes' local w
    ring_left,   \* how many bytes of s write_bytes has still to store
    ring_pc,     \* where write_bytes is: "idle", "test", "full", "store", "enable"
    ring_ie,     \* CR1.TXFEIE: the FIFO-empty interrupt is enabled
    ring_stored, \* history: the bytes stored and not yet sent
    ring_pub     \* history: those of them a published write index covers

ringVars == <<ring_w, ring_r, ring_lw, ring_left, ring_pc, ring_ie,
              ring_stored, ring_pub>>

\* The I2C transaction engine: a write-then-read transaction between its
\* caller, i2c_isr and the peripheral (specification I2cSpec).
VARIABLES
    pending_len,  \* I2cContext.pending_len
    outstanding,  \* I2cContext.outstanding, as the set of its flags
    error,        \* I2cContext.error
    i2c_status,   \* the flags of I2C.ISR: TC, STOPF, and ERR for any of
                  \* ARLO, BERR, NACKF
    i2c_phase,    \* what the peripheral is doing: "idle", "write", "tc", "read"
    i2c_caller,   \* where the caller is: "idle", "wait", "waited" or "panic"
    i2c_read,     \* history: the read phase of this transaction was started
    i2c_hung,     \* history: i2c_isr saw a STOP while the read was pending
    i2c_errs,     \* history: an error flag was raised in this transaction
    i2c_rec,      \* history: i2c_isr recorded an error since the last arm
    i2c_ret,      \* what Wait::wait returned: "none", "Ok" or "Err"
    i2c_prev      \* history: what it returned for the transaction before

i2cVars == <<pending_len, outstanding, error, i2c_status, i2c_phase,
             i2c_caller, i2c_read, i2c_hung, i2c_errs, i2c_rec, i2c_ret,
             i2c_prev>>

\* The two control handlers called directly on any state of the engine and
\* of the endpoint register (specification HandlerSpec).
VARIABLES
    hnd_m,    \* the machine the handler is called on
    hnd_buf,  \* the header in the control RX buffer
    hnd_out,  \* the machine the handler returned with
    hnd_op    \* which handler was called: "none", "tx" or "rx"

handlerVars == <<hnd_m, hnd_buf, hnd_out, hnd_op>>

\* write_bytes, the UART interrupt and the transmitter, with the content of
\* the ring and of the enable sequence step by step (specification UartSpec).
VARIABLES
    dbg_w,       \* Debug.w
    dbg_r,       \* Debug.r
    dbg_buf,     \* Debug.buf: slot -> the number of the byte it holds, -1 at start
    dbg_lw,      \* write_bytes' local w
    dbg_left,    \* how many bytes of s write_bytes has still to store
    dbg_pc,      \* where write_bytes is: "idle", "test", "publish", "cr1",
                 \* "push", "store", "last_publish", "last_cr1"
    dbg_txfeie,  \* CR1.TXFEIE
    dbg_txfe,    \* ISR.TXFE: the transmit FIFO is empty
    dbg_tdr,     \* history: the numbers of the bytes written to TDR, in order
    dbg_passed,  \* history: how many bytes were passed to write_bytes
    dbg_ncalls   \* history: how many calls of write_bytes were made

uartVars == <<dbg_w, dbg_r, dbg_buf, dbg_lw, dbg_left, dbg_pc, dbg_txfeie,
              dbg_txfe, dbg_tdr, dbg_passed, dbg_ncalls>>

\* The variables of the specifications other than Spec.
aside == <<istrVars, headerVars, utf16Vars, loopVars, chepVars, blockVars, ringVars, i2cVars, handlerVars, uartVars>>

\* No callback invocation.
NoInv ==
    [cb |-> "None", arg |-> 0, cbAge |-> "none", vtAge |-> "none",
     vtFinal |-> FALSE]

\* A packet tag: which transfer armed a TX packet ("cur": the transfer of the
\* last SETUP processed, "old": an earlier one, "pre": one from before the
\* last re-initialization) and whether it was the last packet of its transfer.
NoTag == [age |-> "none", final |-> FALSE]

Older(age) == IF age = "cur" THEN "old" ELSE age

BeforeReset(age) == IF age = "none" THEN "none" ELSE "pre"

\* History of the current transfer before any SETUP was processed:
\*   isSetup     the last step processed a SETUP
\*   hdr, rxlen  the SETUP header that step read and its reported length
\*   res         the SetupResult its dispatch gave
\*   isTx, L, R  that result was Tx with L bytes, against wLength R
\*   log         the packet lengths armed for it by setup_next_data, in order
\*   done        setup_next_data armed the last packet
\*   armed       the last step armed a packet through setup_next_data
\*   cbAge       which transfer stored pending_tx_cb
\*   rxAge       which transfer stored pending_rx_cb
\*   arm, vt     the tag of the TX packet that is armed / that has completed
\*   inv, rxInv  the SetupTxCallback / OUT-data predicate the last step invoked
\*   rxOk        the answer of the OUT-data predicate the last step invoked
NoTransfer ==
    [hdr |-> DefaultHeader, rxlen |-> 0, res |-> DefaultResult,
     isSetup |-> FALSE, isTx |-> FALSE, L |-> 0, R |-> 0, log |-> <<>>, done |-> FALSE,
     armed |-> FALSE, cbAge |-> "none", rxAge |-> "none",
     arm |-> NoTag, vt |-> NoTag, rxInv |-> "none", rxOk |-> FALSE,
     inv |-> NoInv]

\* The history at the start of a step: nothing invoked or armed yet.
StepHistory(h) ==
    [h EXCEPT !.inv = NoInv, !.rxInv = "none", !.rxOk = FALSE,
              !.armed = FALSE,
              !.isSetup = FALSE, !.hdr = DefaultHeader, !.rxlen = 0,
              !.res = DefaultResult]

\* The history when the host starts a new transfer: the record of the packets
\* of the transfer it abandons or has finished is closed.
EndTransfer(h) ==
    [h EXCEPT !.isTx = FALSE, !.L = 0, !.R = 0, !.log = <<>>, !.done = FALSE]

\* The history when a SETUP starts a new transfer: what the earlier transfer
\* left behind grows older.
NewTransfer(h, setup, rxlen) ==
    [NoTransfer EXCEPT !.isSetup = TRUE, !.hdr = setup, !.rxlen = rxlen,
                       !.cbAge = Older(h.cbAge), !.rxAge = Older(h.rxAge),
                       !.arm = [h.arm EXCEPT !.age = Older(@)],
                       !.vt = [h.vt EXCEPT !.age = Older(@)]]

\* The part of the state that software steps read and write, as one record.
Machine ==
    [ctl |-> ctl, chep |-> chep, bd_tx |-> bd_tx, bd_rx |-> bd_rx,
     daddr |-> daddr, cntr |-> cntr, calls |-> <<>>,
     g |-> StepHistory(g)]

(* ------------------------- the control engine -------------------------- *)

\* setup_next_data without the short-transfer test: whether more is to be
\* sent is decided by the remaining length alone.
setup_next_data_by_length(m, data, cb) ==
    LET is_short == data.len < MaxPacket
        len      == IF is_short THEN data.len ELSE MaxPacket
        more     == len # data.len
    IN  [m EXCEPT
          !.ctl = IF more
                  THEN [@ EXCEPT !.setup_data =
                          TxResult(data.src, data.off + len, data.len - len, cb)]
                  ELSE [@ EXCEPT !.setup_data = DefaultResult,
                                 !.pending_tx_cb = cb],
          !.bd_tx = chep_bd_tx(CTRL_TX_OFFSET, len),
          !.g = [@ EXCEPT !.log = Append(@, len),
                          !.done = ~more,
                          !.armed = TRUE,
                          !.arm = [age |-> "cur", final |-> ~more],
                          !.cbAge = IF more THEN @
                                    ELSE IF cb = "None" THEN "none" ELSE "cur"]]

\* ControlState::setup_next_data: arm the next packet of `data`.
setup_next_data(m, data, cb) ==
    LET is_short == data.len < MaxPacket
        len      == IF is_short THEN data.len ELSE MaxPacket
        more     == len # data.len \/ (~is_short /\ m.ctl.setup_short)
    IN  [m EXCEPT
          !.ctl = IF more
                  THEN [@ EXCEPT !.setup_data =
                          TxResult(data.src, data.off + len, data.len - len, cb)]
                  ELSE [@ EXCEPT !.setup_data = DefaultResult,
                                 !.pending_tx_cb = cb],
          !.bd_tx = chep_bd_tx(CTRL_TX_OFFSET, len),
          !.g = [@ EXCEPT !.log = Append(@, len),
                          !.done = ~more,
                          !.armed = TRUE,
                          !.arm = [age |-> "cur", final |-> ~more],
                          !.cbAge = IF more THEN @
                                    ELSE IF cb = "None" THEN "none" ELSE "cur"]]

\* ControlState::setup_send_data: start the IN data (or the empty ACK).
setup_send_data(m, setup, data, cb) ==
    LET short == data.len < setup.length
        len   == IF short THEN data.len ELSE setup.length
        m1    == [m EXCEPT !.ctl.setup_short = short,
                           !.g = [@ EXCEPT !.isTx = TRUE, !.L = data.len,
                                           !.R = setup.length]]
        m2    == setup_next_data(m1, [data EXCEPT !.len = len], cb)
        c     == m2.chep
    IN  [m2 EXCEPT !.chep = ChepWrite(@, tx_valid(clear_VTRX(control), c))]

\* ControlState::do_set_address: write the address, function enabled.
do_set_address(m, setup) ==
    [m EXCEPT !.daddr = [EF |-> TRUE, ADD |-> setup.value_lo]]

\* Invoke a SetupTxCallback: do_set_address is the engine's own, any other
\* one belongs to an Endpoint Capability and does not touch the engine.
CallTxCallback(m, cb, setup) ==
    LET m1 == [m EXCEPT !.calls = Append(@, <<cb, setup.value_lo>>),
                        !.g.inv = [cb |-> cb, arg |-> setup.value_lo,
                                   cbAge |-> m.g.cbAge,
                                   vtAge |-> m.g.vt.age,
                                   vtFinal |-> m.g.vt.final],
                        !.g.cbAge = "none"]
    IN  IF cb = "do_set_address" THEN do_set_address(m1, setup) ELSE m1

\* tx_handler without the test of the TX transaction-complete flag.
tx_handler_unguarded(m) ==
    LET c == m.chep
    IN  IF m.ctl.setup_data.tag = "Tx"
        THEN LET d  == m.ctl.setup_data
                 m1 == setup_next_data(
                           m, [src |-> d.src, off |-> d.off, len |-> d.len], d.cb)
             IN  [m1 EXCEPT
                    !.chep = ChepWrite(@, tx_valid(clear_VTTX(control), c))]
        ELSE LET cb == m.ctl.pending_tx_cb
                 m1 == IF cb # "None"
                       THEN [CallTxCallback(
                                [m EXCEPT !.ctl.pending_tx_cb = "None"],
                                cb, m.ctl.setup)
                             EXCEPT !.ctl.setup = DefaultHeader]
                       ELSE m
             IN  [m1 EXCEPT
                    !.chep = ChepWrite(
                        @, dtogrx(rx_valid(clear_VTTX(control), c), c, FALSE))]

\* ControlState::tx_handler
tx_handler(m) ==
    LET c == m.chep
    IN  IF ~c.VTTX THEN m
        ELSE IF m.ctl.setup_data.tag = "Tx"
        THEN LET d  == m.ctl.setup_data
                 m1 == setup_next_data(
                           m, [src |-> d.src, off |-> d.off, len |-> d.len], d.cb)
             IN  [m1 EXCEPT
                    !.chep = ChepWrite(@, tx_valid(clear_VTTX(control), c))]
        ELSE LET cb == m.ctl.pending_tx_cb
                 m1 == IF cb # "None"
                       THEN [CallTxCallback(
                                [m EXCEPT !.ctl.pending_tx_cb = "None"],
                                cb, m.ctl.setup)
                             EXCEPT !.ctl.setup = DefaultHeader]
                       ELSE m
             IN  [m1 EXCEPT
                    !.chep = ChepWrite(
                        @, dtogrx(rx_valid(clear_VTTX(control), c), c, FALSE))]

\* setup_rx_data with a check of the received byte count against the length
\* of the stored header: a packet of another length is refused unseen.
setup_rx_data_checked(m) ==
    LET cb == m.ctl.pending_rx_cb
    IN  IF cb = "None" \/ chep_bd_len(m.bd_rx) # m.ctl.setup.length
        THEN {[m |-> m, ok |-> FALSE]}
        ELSE {[m  |-> [m EXCEPT !.ctl.pending_rx_cb = "None",
                                !.calls = Append(@, <<cb, 0>>),
                                !.g.rxInv = m.g.rxAge,
                                !.g.rxOk = b,
                                !.g.rxAge = "none"],
               ok |-> b] : b \in BOOLEAN}

\* ControlState::setup_rx_data: run the stored OUT-data predicate, if any.
\* The predicate belongs to an Endpoint Capability and may answer either way:
\* the outcomes are the machine paired with the answer.
setup_rx_data(m) ==
    LET cb == m.ctl.pending_rx_cb
    IN  IF cb = "None" THEN {[m |-> m, ok |-> FALSE]}
        ELSE {[m  |-> [m EXCEPT !.ctl.pending_rx_cb = "None",
                                !.calls = Append(@, <<cb, 0>>),
                                !.g.rxInv = m.g.rxAge,
                                !.g.rxOk = b,
                                !.g.rxAge = "none"],
               ok |-> b] : b \in BOOLEAN}

(* ------------------------ external collaborators ----------------------- *)

\* The payload lengths and wLength values that are tried: the lengths at and
\* just above each multiple of the packet size.
LenSamples == {n \in 0..MaxLen : n % MaxPacket \in {0, 1}}

\* USBTypes::get_device_descriptor(): the 18-byte device descriptor.
DeviceDescriptorResults == {tx_data("device_desc", DeviceDescLen)}

\* USBTypes::get_config_descriptor(setup): a descriptor of any length.
ConfigDescriptorResults == {tx_data("config_desc", L) : L \in LenSamples}

\* USBTypes::get_string_descriptor(idx), as define_usb_strings! provides it:
\* an error for an index out of range, else 2 + 2 * n bytes.
StringDescriptorResults ==
    {ErrorResult, tx_data("string_desc", 4)}

\* EndpointPair::setup_handler(setup): any SetupResult.
EndpointResults(setup) ==
    {TxResult("ep_data", 0, L, cb) :
        L \in {0, 1, MaxPacket}, cb \in {"None", "ep_tx_cb"}}
    \cup {RxResult(len, cb) :
        len \in {0, setup.length, setup.length + 1},
        cb \in {"None", "ep_rx_cb"}}

\* The endpoints in the order ep1 .. ep7.
EndPoints == 1..NumEndpoints

(* --------------------------- SETUP dispatch ---------------------------- *)

\* USB_State::ep_initialize: EP1::initialize() .. EP7::initialize().
RECURSIVE ep_initialize_from(_, _)
ep_initialize_from(m, i) ==
    IF i > NumEndpoints THEN m
    ELSE ep_initialize_from(
             [m EXCEPT !.calls = Append(@, <<"initialize", i>>)], i + 1)

ep_initialize(m) == ep_initialize_from(m, 1)

\* ControlState::set_address: an empty ACK that applies the address later.
set_address(m, header) == [m |-> m, res |-> no_data_cb("do_set_address")]

\* set_configuration that marks the device configured without initializing
\* the endpoints.
set_configuration_flag_only(m, config) ==
    IF config = 0 THEN [m |-> m, res |-> no_data]
    ELSE IF config # 1 THEN [m |-> m, res |-> ErrorResult]
    ELSE [m |-> [m EXCEPT !.ctl.configured = TRUE], res |-> no_data]

\* set_configuration that takes configuration 0 as "unconfigure".
set_configuration_zero_resets(m, config) ==
    IF config = 0
    THEN [m |-> [m EXCEPT !.ctl.configured = FALSE], res |-> no_data]
    ELSE IF config # 1 THEN [m |-> m, res |-> ErrorResult]
    ELSE [m   |-> [ep_initialize(m) EXCEPT !.ctl.configured = TRUE],
          res |-> no_data]

\* ControlState::set_configuration
set_configuration(m, config) ==
    IF config = 0 THEN [m |-> m, res |-> no_data]
    ELSE IF config # 1 THEN [m |-> m, res |-> ErrorResult]
    ELSE [m   |-> [ep_initialize(m) EXCEPT !.ctl.configured = TRUE],
          res |-> no_data]

\* The chain ep1.setup_wanted .. ep7.setup_wanted of setup_rx_handler, from
\* endpoint i on.  Each predicate may answer either way; the first endpoint
\* that answers true handles the request and its handler's result is returned.
RECURSIVE setup_offer_from(_, _, _)
setup_offer_from(m, setup, i) ==
    IF i > NumEndpoints THEN {[m |-> m, res |-> ErrorResult]}
    ELSE {[m   |-> [m EXCEPT !.calls =
                       @ \o <<<<"setup_wanted_true", i>>,
                              <<"setup_handler", i>>>>],
           res |-> r] : r \in EndpointResults(setup)}
         \cup setup_offer_from(
                  [m EXCEPT !.calls = Append(@, <<"setup_wanted_false", i>>)],
                  setup, i + 1)

\* The chain that starts at ep2: ep1 is never asked.
setup_offer_skip_first(m, setup) == setup_offer_from(m, setup, 2)

setup_offer(m, setup) == setup_offer_from(m, setup, 1)

\* A call of the descriptor provider: the call is recorded and the provider
\* answers with one of `results`.
Provider(m, name, arg, results) ==
    {[m |-> [m EXCEPT !.calls = Append(@, <<name, arg>>)], res |-> r] :
        r \in results}

\* match_request that cuts the GET_STATUS answer to the length asked for.
match_request_status_clamped(m, setup) ==
    LET rq == <<setup.request_type, setup.request>>
    IN  CASE rq = <<128, 0>> ->
               {[m |-> m, res |-> tx_data("zero_u16", Min(2, setup.length))]}
          [] rq = <<0, 5>> -> {set_address(m, setup)}
          [] rq = <<128, 6>> ->
               (CASE setup.value_hi = 1 ->
                       Provider(m, "get_device_descriptor", 0,
                                DeviceDescriptorResults)
                  [] setup.value_hi = 2 ->
                       Provider(m, "get_config_descriptor", 0,
                                ConfigDescriptorResults)
                  [] setup.value_hi = 3 ->
                       Provider(m, "get_string_descriptor",
                                setup.value_lo, StringDescriptorResults)
                  [] OTHER -> {[m |-> m, res |-> ErrorResult]})
          [] rq = <<0, 9>> -> {set_configuration(m, setup.value_lo)}
          [] rq = <<1, 11>> -> {[m |-> m, res |-> no_data]}
          [] OTHER -> setup_offer(m, setup)

\* The match on (request_type, request) of setup_rx_handler: the outcomes are
\* the machine paired with the SetupResult.
match_request(m, setup) ==
    LET rq == <<setup.request_type, setup.request>>
    IN  CASE rq = <<128, 0>> ->
               {[m |-> m, res |-> tx_data("zero_u16", 2)]}
          [] rq = <<0, 5>> -> {set_address(m, setup)}
          [] rq = <<128, 6>> ->
               (CASE setup.value_hi = 1 ->
                       Provider(m, "get_device_descriptor", 0,
                                DeviceDescriptorResults)
                  [] setup.value_hi = 2 ->
                       Provider(m, "get_config_descriptor", 0,
                                ConfigDescriptorResults)
                  [] setup.value_hi = 3 ->
                       Provider(m, "get_string_descriptor",
                                setup.value_lo, StringDescriptorResults)
                  [] OTHER -> {[m |-> m, res |-> ErrorResult]})
          [] rq = <<0, 9>> -> {set_configuration(m, setup.value_lo)}
          [] rq = <<1, 11>> -> {[m |-> m, res |-> no_data]}
          [] OTHER -> setup_offer(m, setup)

\* setup_rx_handler that checks the reported length first and cancels what is
\* pending only for a SETUP it dispatches.
setup_rx_handler_check_first(m, setup) ==
    LET m0  == [m EXCEPT !.ctl.pending_address = "None",
                         !.ctl.setup_data = DefaultResult,
                         !.ctl.pending_rx_cb = "None",
                         !.g.rxAge = "none"]
        len == chep_bd_len(m.bd_rx)
    IN  IF len < MinSetupLen THEN {[m |-> m, res |-> ErrorResult]}
        ELSE match_request(m0, setup)

\* setup_rx_handler that cancels the pending address and OUT-data predicate
\* and leaves the TX remainder in place.
setup_rx_handler_keep_data(m, setup) ==
    LET m0  == [m EXCEPT !.ctl.pending_address = "None",
                         !.ctl.pending_rx_cb = "None",
                         !.g.rxAge = "none"]
        len == chep_bd_len(m0.bd_rx)
    IN  IF len < MinSetupLen THEN {[m |-> m0, res |-> ErrorResult]}
        ELSE match_request(m0, setup)

\* ControlState::setup_rx_handler: cancel what is pending, check the length
\* reported for the packet, dispatch.
setup_rx_handler(m, setup) ==
    LET m0  == [m EXCEPT !.ctl.pending_address = "None",
                         !.ctl.setup_data = DefaultResult,
                         !.ctl.pending_rx_cb = "None",
                         !.g.rxAge = "none"]
        len == chep_bd_len(m0.bd_rx)
    IN  IF len < MinSetupLen THEN {[m |-> m0, res |-> ErrorResult]}
        ELSE match_request(m0, setup)

\* match_result whose error arm stalls but keeps the stored header.
match_result_keep_header(m, setup, r, c) ==
    IF r.tag = "Tx"
    THEN setup_send_data(m, setup,
                         [src |-> r.src, off |-> r.off, len |-> r.len], r.cb)
    ELSE IF r.len = setup.length /\ r.len # 0
    THEN [m EXCEPT
            !.ctl.pending_rx_cb = r.cb,
            !.g.rxAge = IF r.cb = "None" THEN "none" ELSE "cur",
            !.chep = ChepWrite(
                @, dtogrx(rx_valid(clear_VTRX(control), c), c, TRUE))]
    ELSE [m EXCEPT
            !.chep = ChepWrite(
                @, stat_tx(stat_rx(clear_VTRX(control), c, StatStall),
                           c, StatStall))]

\* match_result whose Rx arm arms the reception and drops the predicate.
match_result_rx_drop_cb(m, setup, r, c) ==
    IF r.tag = "Tx"
    THEN setup_send_data(m, setup,
                         [src |-> r.src, off |-> r.off, len |-> r.len], r.cb)
    ELSE IF r.len = setup.length /\ r.len # 0
    THEN [m EXCEPT
            !.chep = ChepWrite(
                @, dtogrx(rx_valid(clear_VTRX(control), c), c, TRUE))]
    ELSE [m EXCEPT
            !.ctl.setup = DefaultHeader,
            !.chep = ChepWrite(
                @, stat_tx(stat_rx(clear_VTRX(control), c, StatStall),
                           c, StatStall))]

\* match_result whose error arm stalls but stores the predicate all the same.
match_result_rx_store_always(m, setup, r, c) ==
    IF r.tag = "Tx"
    THEN setup_send_data(m, setup,
                         [src |-> r.src, off |-> r.off, len |-> r.len], r.cb)
    ELSE IF r.len = setup.length /\ r.len # 0
    THEN [m EXCEPT
            !.ctl.pending_rx_cb = r.cb,
            !.g.rxAge = IF r.cb = "None" THEN "none" ELSE "cur",
            !.chep = ChepWrite(
                @, dtogrx(rx_valid(clear_VTRX(control), c), c, TRUE))]
    ELSE [m EXCEPT
            !.ctl.setup = DefaultHeader,
            !.ctl.pending_rx_cb = r.cb,
            !.g.rxAge = IF r.cb = "None" THEN "none" ELSE "cur",
            !.chep = ChepWrite(
                @, stat_tx(stat_rx(clear_VTRX(control), c, StatStall),
                           c, StatStall))]

\* The match on the SetupResult of rx_handler, `c` being the CHEP0 value the
\* handler read when it was entered.
match_result(m, setup, r, c) ==
    IF r.tag = "Tx"
    THEN setup_send_data(m, setup,
                         [src |-> r.src, off |-> r.off, len |-> r.len], r.cb)
    ELSE IF r.len = setup.length /\ r.len # 0
    THEN [m EXCEPT
            !.ctl.pending_rx_cb = r.cb,
            !.g.rxAge = IF r.cb = "None" THEN "none" ELSE "cur",
            !.chep = ChepWrite(
                @, dtogrx(rx_valid(clear_VTRX(control), c), c, TRUE))]
    ELSE [m EXCEPT
            !.ctl.setup = DefaultHeader,
            !.chep = ChepWrite(
                @, stat_tx(stat_rx(clear_VTRX(control), c, StatStall),
                           c, StatStall))]

\* What rx_handler does with a SETUP packet whose header is `buf`.
rx_handler_setup(m, buf) ==
    LET c     == m.chep
        setup == buf
        m1    == [m EXCEPT
                    !.ctl.setup = setup,
                    !.g = NewTransfer(@, setup, chep_bd_len(m.bd_rx))]
    IN  {match_result([o.m EXCEPT !.g.res = o.res], setup, o.res, c)
         : o \in setup_rx_handler(m1, setup)}

\* What rx_handler does with a non-SETUP packet while OUT data is expected.
rx_handler_data(m) ==
    LET c == m.chep
    IN  {[o.m EXCEPT
            !.ctl.setup = DefaultHeader,
            !.bd_tx = chep_bd_tx(CTRL_TX_OFFSET, 0),
            !.chep = ChepWrite(
                @, rx_valid(
                       stat_tx(clear_VTRX(control), c,
                               IF o.ok THEN StatValid ELSE StatStall),
                       c)),
            !.g.arm = IF o.ok THEN [age |-> "cur", final |-> TRUE]
                      ELSE @]
         : o \in setup_rx_data(m)}

\* rx_handler that drops an unexpected packet without writing the TX status.
rx_handler_drop_keep_tx(m, buf) ==
    LET c == m.chep
    IN  IF ~c.VTRX THEN {m}
        ELSE IF ~c.SETUP
        THEN IF m.ctl.setup.length = 0
             THEN {[m EXCEPT
                      !.ctl.setup_data = DefaultResult,
                      !.chep = ChepWrite(
                          @, rx_valid(clear_VTRX(control), c))]}
             ELSE rx_handler_data(m)
        ELSE rx_handler_setup(m, buf)

\* rx_handler that acknowledges the OUT data whatever the predicate answers.
rx_handler_ack_always(m, buf) ==
    LET c == m.chep
    IN  IF ~c.VTRX THEN {m}
        ELSE IF ~c.SETUP
        THEN IF m.ctl.setup.length = 0
             THEN {[m EXCEPT
                      !.ctl.setup_data = DefaultResult,
                      !.chep = ChepWrite(
                          @, stat_tx(rx_valid(clear_VTRX(control), c),
                                     c, StatNak))]}
             ELSE {[o.m EXCEPT
                      !.ctl.setup = DefaultHeader,
                      !.bd_tx = chep_bd_tx(CTRL_TX_OFFSET, 0),
                      !.chep = ChepWrite(
                          @, rx_valid(
                                 stat_tx(clear_VTRX(control), c, StatValid),
                                 c)),
                      !.g.arm = [age |-> "cur", final |-> TRUE]]
                   : o \in setup_rx_data(m)}
        ELSE rx_handler_setup(m, buf)

\* ControlState::rx_handler, `buf` being the header in the control RX buffer.
\* The outcomes are the machines it may end in.
rx_handler(m, buf) ==
    LET c == m.chep
    IN  IF ~c.VTRX THEN {m}
        ELSE IF ~c.SETUP
        THEN IF m.ctl.setup.length = 0
             THEN {[m EXCEPT
                      !.ctl.setup_data = DefaultResult,
                      !.chep = ChepWrite(
                          @, stat_tx(rx_valid(clear_VTRX(control), c),
                                     c, StatNak))]}
             ELSE rx_handler_data(m)
        ELSE rx_handler_setup(m, buf)

\* usb_initialize that resets the fields of the transfer in progress and
\* leaves the post-ACK callback stored.
ControlState_usb_initialize_keep_callback(m) ==
    [m EXCEPT !.ctl = [DefaultControl EXCEPT
                          !.pending_tx_cb = m.ctl.pending_tx_cb]]

\* ControlState::usb_initialize: *self = Self::default()
ControlState_usb_initialize(m) == [m EXCEPT !.ctl = DefaultControl]

\* The three methods through which USB_State reaches its control engine.
\* Their bodies are not part of the sources; each is taken to hand over to the
\* ControlState method that does the work.
control_initialize(m) == ControlState_usb_initialize(m)

control_tx_handler(m) == tx_handler(m)

control_rx_handler(m, buf) == rx_handler(m, buf)

\* usb_initialize that sets up everything but leaves the RX status of the
\* control endpoint as it finds it.
usb_initialize_rx_untouched(m) ==
    LET m1   == control_initialize(m)
        m2   == [m1 EXCEPT
                   !.cntr = [PDWN |-> FALSE, USBRST |-> FALSE,
                             RST_DCONM |-> TRUE, CTRM |-> TRUE,
                             SOFM |-> TRUE],
                   !.daddr = [EF |-> TRUE, ADD |-> 0],
                   !.bd_rx = chep_block(MaxPacket, CTRL_RX_OFFSET)]
        ctrl == m2.chep
        m3   == [m2 EXCEPT
                   !.chep = ChepWrite(
                       @, dtogtx(dtogrx(control, ctrl, FALSE), ctrl, FALSE))]
    IN  ep_initialize(m3)

\* USB_State::usb_initialize
usb_initialize(m) ==
    LET m1   == control_initialize(m)
        m2   == [m1 EXCEPT
                   !.cntr = [PDWN |-> FALSE, USBRST |-> FALSE,
                             RST_DCONM |-> TRUE, CTRM |-> TRUE,
                             SOFM |-> TRUE],
                   !.daddr = [EF |-> TRUE, ADD |-> 0],
                   !.bd_rx = chep_block(MaxPacket, CTRL_RX_OFFSET)]
        ctrl == m2.chep
        m3   == [m2 EXCEPT
                   !.chep = ChepWrite(
                       @, rx_valid(
                              dtogtx(dtogrx(control, ctrl, FALSE), ctrl, FALSE),
                              ctrl))]
    IN  ep_initialize(m3)

\* USB_State::start_of_frame: ep1.start_of_frame() .. ep7.start_of_frame().
RECURSIVE start_of_frame_from(_, _)
start_of_frame_from(m, i) ==
    IF i > NumEndpoints THEN m
    ELSE start_of_frame_from(
             [m EXCEPT !.calls = Append(@, <<"start_of_frame", i>>)], i + 1)

start_of_frame(m) == start_of_frame_from(m, 1)

(* ------------------------------ host / bus ----------------------------- *)

\* Largest device address the host assigns.
MaxAddr == 1

Header(t, r, lo, hi, len) ==
    [request_type |-> t, request |-> r, value_lo |-> lo, value_hi |-> hi,
     index |-> 0, length |-> len]

\* The SETUP packets the host sends: the standard requests the control
\* endpoint answers, a descriptor of an unknown type, a vendor request
\* (0x40, 0x99) and a request that shares its request byte with
\* SET_CONFIGURATION but not its type.
SetupPackets ==
    {Header(128, 0, 0, 0, 2), Header(128, 0, 1, 0, 0)}
    \cup {Header(0, 5, v, 0, 0) : v \in 1..MaxAddr}
    \cup {Header(128, 6, 0, 1, len) : len \in {8, DeviceDescLen}}
    \cup {Header(128, 6, 0, 2, len) : len \in LenSamples}
    \cup {Header(128, 6, 1, 3, 4), Header(128, 6, 0, 6, 10)}
    \cup {Header(0, 9, lo, 0, 0) : lo \in {0, 1, 2}}
    \cup {Header(1, 11, 0, 0, 0)}
    \cup {Header(64, 153, 0, 0, len) : len \in {0, 8, MaxLen}}
    \cup {Header(128, 9, 1, 0, 0)}

\* The SETUP packets that arrive truncated, one byte short of a header.
ShortPackets == {Header(128, 0, 0, 0, 2), Header(0, 9, 1, 0, 0)}

\* What the host's SETUP leaves in the RX buffer and its descriptor: the
\* header and the byte count reported.
SetupArrivals ==
    {[hdr |-> h, count |-> MinSetupLen] : h \in SetupPackets}
    \cup {[hdr |-> h, count |-> MinSetupLen - 1] : h \in ShortPackets}

\* The byte counts of the OUT packets the host sends.
OutCounts == {0, 8}

\* The ISTR value as software reads it: the two flags, and the
\* transfer-complete bit with the completion code (DIR and IDN) that the
\* peripheral derives from the endpoint's transaction-complete flags.
ReadIstr(i, c) ==
    [RST |-> i.RST, SOF |-> i.SOF, CTR |-> c.VTRX \/ c.VTTX,
     code |-> IF c.VTRX THEN 16 ELSE 0]

\* The interrupt line: a flag of ISTR whose mask bit is set in CNTR.
IrqPending ==
    LET r == ReadIstr(istr, chep)
    IN  \/ r.RST /\ cntr.RST_DCONM
        \/ r.SOF /\ cntr.SOFM
        \/ r.CTR /\ cntr.CTRM

\* The history after the peripheral or the software changed the endpoint
\* register: a packet tag lasts as long as the state it describes.
Settle(h, c) ==
    [h EXCEPT !.vt = IF c.VTTX THEN @ ELSE NoTag,
              !.arm = IF c.STATTX = StatValid THEN @ ELSE NoTag]

\* History of the last step before any: its name, whether it re-initialized,
\* whether it served a start of frame, and what it found: a re-initialization
\* or a SETUP the configured flag, a SETUP the address register, an OUT data
\* packet the length of the stored header and the stored OUT-data predicate.
NoLast ==
    [op |-> "none", reset |-> FALSE, sof |-> FALSE, cfg |-> FALSE, addr |-> 0,
     len |-> 0, rxcb |-> "None"]

\* A step of the peripheral: software state and the dispatcher stay put.
HwStep(op) ==
    /\ calls' = <<>>
    /\ last' = [NoLast EXCEPT !.op = op]
    /\ UNCHANGED <<ctl, bd_tx, cntr, pc, lat>>
    /\ UNCHANGED aside

\* The host sends a SETUP packet.  The peripheral takes it whatever the RX
\* status is, unless an earlier reception is still unacknowledged; both
\* statuses fall to NAK and both data toggles are set for the data stage.
HostSetup ==
    /\ daddr.EF /\ chep.STATRX # StatDisabled /\ ~chep.VTRX
    /\ \E a \in SetupArrivals :
         /\ rxbuf' = a.hdr
         /\ bd_rx' = [bd_rx EXCEPT !.count = a.count]
    /\ chep' = [chep EXCEPT !.VTRX = TRUE, !.SETUP = TRUE,
                            !.STATRX = StatNak, !.STATTX = StatNak,
                            !.DTOGRX = TRUE, !.DTOGTX = TRUE]
    /\ g' = Settle(EndTransfer(StepHistory(g)), chep')
    /\ UNCHANGED <<daddr, istr>>
    /\ HwStep("host_setup")

\* The host sends an OUT packet while the RX status is valid.
HostOut ==
    /\ daddr.EF /\ chep.STATRX = StatValid
    /\ \E n \in OutCounts : bd_rx' = [bd_rx EXCEPT !.count = n]
    /\ chep' = [chep EXCEPT !.VTRX = TRUE, !.SETUP = FALSE,
                            !.STATRX = StatNak, !.DTOGRX = ~@]
    /\ g' = Settle(StepHistory(g), chep')
    /\ UNCHANGED <<rxbuf, daddr, istr>>
    /\ HwStep("host_out")

\* The host takes the armed TX packet with an IN token and acknowledges it.
HostIn ==
    /\ daddr.EF /\ chep.STATTX = StatValid
    /\ chep' = [chep EXCEPT !.VTTX = TRUE, !.STATTX = StatNak, !.DTOGTX = ~@]
    /\ g' = [StepHistory(g) EXCEPT !.vt = g.arm, !.arm = NoTag]
    /\ UNCHANGED <<bd_rx, rxbuf, daddr, istr>>
    /\ HwStep("host_in")

\* A bus reset: the endpoint register is reset except for its two
\* transaction-complete flags, the function is disabled at address 0.
BusReset ==
    /\ ~cntr.PDWN /\ ~istr.RST
    /\ istr' = [istr EXCEPT !.RST = TRUE]
    /\ chep' = [ChepReset EXCEPT !.VTRX = chep.VTRX, !.VTTX = chep.VTTX]
    /\ daddr' = [EF |-> FALSE, ADD |-> 0]
    /\ g' = Settle(StepHistory(g), chep')
    /\ UNCHANGED <<bd_rx, rxbuf>>
    /\ HwStep("bus_reset")

\* A start of frame on the bus.  The dispatcher looks at the flag only when
\* it is entered, so a start of frame during a run of the dispatcher is the
\* same as one right after it.
StartOfFrame ==
    /\ pc = "idle"
    /\ ~cntr.PDWN /\ daddr.EF /\ ~istr.SOF
    /\ istr' = [istr EXCEPT !.SOF = TRUE]
    /\ g' = StepHistory(g)
    /\ UNCHANGED <<chep, bd_rx, rxbuf, daddr>>
    /\ HwStep("sof")

(* ----------------------------- dispatcher ------------------------------ *)

\* The machine a software step ends in becomes the state.
Commit(m) ==
    /\ ctl' = m.ctl
    /\ chep' = m.chep
    /\ bd_tx' = m.bd_tx
    /\ bd_rx' = m.bd_rx
    /\ daddr' = m.daddr
    /\ cntr' = m.cntr
    /\ calls' = m.calls
    /\ g' = Settle(m.g, m.chep)
    /\ UNCHANGED aside

\* The history after a re-initialization: what is still stored dates from
\* before it.
ResetHistory(m) ==
    [m EXCEPT !.g = [NoTransfer EXCEPT
        !.cbAge = IF m.ctl.pending_tx_cb = "None" THEN "none"
                  ELSE BeforeReset(m.g.cbAge),
        !.rxAge = IF m.ctl.pending_rx_cb = "None" THEN "none"
                  ELSE BeforeReset(m.g.rxAge),
        !.arm = [m.g.arm EXCEPT !.age = BeforeReset(@)],
        !.vt = [m.g.vt EXCEPT !.age = BeforeReset(@)]]]

\* USB_State::init: power the peripheral up, force its reset, clear ISTR and
\* initialize.
AppInit ==
    /\ pc = "idle" /\ cntr.PDWN
    /\ istr' = [RST |-> FALSE, SOF |-> FALSE]
    /\ Commit(ResetHistory(usb_initialize([Machine EXCEPT !.chep = ChepReset])))
    /\ last' = [NoLast EXCEPT !.op = "init", !.reset = TRUE,
                              !.cfg = ctl.configured]
    /\ UNCHANGED <<rxbuf, pc, lat>>

\* The entry of isr with the bus reset served before the start of frame.
IsrEntry_reset_first ==
    /\ pc = "idle" /\ IrqPending
    /\ LET r  == ReadIstr(istr, chep)
           m1 == IF r.RST THEN ResetHistory(usb_initialize(Machine))
                 ELSE Machine
           m2 == IF r.SOF THEN start_of_frame(m1) ELSE m1
       IN  /\ istr' = [RST |-> FALSE, SOF |-> FALSE]
           /\ lat' = [CTR |-> r.CTR, code |-> r.code]
           /\ Commit(m2)
           /\ last' = [NoLast EXCEPT !.op = "isr_entry", !.reset = r.RST,
                                     !.sof = r.SOF, !.cfg = ctl.configured]
    /\ pc' = "loop"
    /\ UNCHANGED rxbuf

\* USB_State::isr up to its transfer-complete loop: read ISTR, acknowledge,
\* start of frame, bus reset.
IsrEntry ==
    /\ pc = "idle" /\ IrqPending
    /\ LET r  == ReadIstr(istr, chep)
           m1 == IF r.SOF THEN start_of_frame(Machine) ELSE Machine
           m2 == IF r.RST THEN ResetHistory(usb_initialize(m1)) ELSE m1
       IN  /\ istr' = [RST |-> FALSE, SOF |-> FALSE]
           /\ lat' = [CTR |-> r.CTR, code |-> r.code]
           /\ Commit(m2)
           /\ last' = [NoLast EXCEPT !.op = "isr_entry", !.reset = r.RST,
                                     !.sof = r.SOF, !.cfg = ctl.configured]
    /\ pc' = "loop"
    /\ UNCHANGED rxbuf

\* The handler the transfer-complete loop selects for a completion code.
Dispatch(m, code) ==
    CASE code = 0  -> {control_tx_handler(m)}
      [] code = 16 -> control_rx_handler(m, rxbuf)
      [] code \in 1..7 ->
           {[m EXCEPT !.calls = Append(@, <<"tx_handler", code>>)]}
      [] code \in 17..23 ->
           {[m EXCEPT !.calls = Append(@, <<"rx_handler", code - 16>>)]}
      [] OTHER -> {m}

\* The name of the step the dispatch of `code` makes.
DispatchOp(code) ==
    CASE code = 0 -> "ctl_tx"
      [] code = 16 -> IF ~chep.VTRX THEN "ctl_rx_none"
                      ELSE IF chep.SETUP THEN "ctl_rx_setup"
                      ELSE "ctl_rx_data"
      [] OTHER -> "ep"

\* One turn of the transfer-complete loop: run the handler of the completion
\* read last, then read ISTR again.  An unknown code leaves the loop.  The
\* content of the RX buffer is followed until rx_handler has run: the handler
\* copies what it needs and nothing reads the buffer again before the
\* peripheral overwrites it.
IsrDispatch ==
    /\ pc = "loop" /\ lat.CTR
    /\ \E m \in Dispatch(Machine, lat.code) :
         /\ Commit(m)
         /\ LET r == ReadIstr(istr, m.chep)
            IN  lat' = [CTR |-> r.CTR, code |-> r.code]
    /\ pc' = IF lat.code \in (0..7) \cup (16..23) THEN "loop" ELSE "idle"
    /\ last' = LET op == DispatchOp(lat.code)
               IN  IF op = "ctl_rx_setup"
                   THEN [NoLast EXCEPT !.op = op, !.cfg = ctl.configured,
                                       !.addr = daddr.ADD]
                   ELSE IF op = "ctl_rx_data"
                   THEN [NoLast EXCEPT !.op = op,
                                       !.len = ctl.setup.length,
                                       !.rxcb = ctl.pending_rx_cb]
                   ELSE [NoLast EXCEPT !.op = op]
    /\ rxbuf' = IF lat.code = 16 THEN DefaultHeader ELSE rxbuf
    /\ UNCHANGED istr

\* The loop ends when the transfer-complete bit reads clear.
IsrReturn ==
    /\ pc = "loop" /\ ~lat.CTR
    /\ pc' = "idle"
    /\ calls' = <<>>
    /\ last' = [NoLast EXCEPT !.op = "isr_return"]
    /\ g' = StepHistory(g)
    /\ UNCHANGED <<ctl, chep, bd_tx, bd_rx, rxbuf, daddr, cntr, istr,
                   lat>>
    /\ UNCHANGED aside

(* ----------------------- the acknowledge of ISTR ----------------------- *)

\* Bit positions of ISTR: start of frame, bus reset, transfer complete.
BitSOF == 9

BitRST_DCON == 10

BitCTR == 15

\* Width of the register.
RegWidth == 32

\* The constant of the acknowledge write, 0x37fc0.
AckMask == 229312

\* How often the peripheral raises each flag.
MaxEvents == 2

\* The bit positions of a register value that are 1.
RECURSIVE BitsFrom(_, _)
BitsFrom(n, i) ==
    IF n = 0 THEN {}
    ELSE (IF n % 2 = 1 THEN {i} ELSE {}) \cup BitsFrom(n \div 2, i + 1)

Bits(n) == BitsFrom(n, 0)

\* Bitwise complement of a register value.
BitNot(x) == (0..(RegWidth - 1)) \ x

\* The flags of ISTR that software clears by writing 0 (writing 1 leaves
\* them as they are); every other bit is read-only.
ClearableBits == (7..14) \cup {16, 22}

\* ISTR after software wrote the value w.
WriteISTR(cur, w) == {b \in cur : b \notin ClearableBits \/ b \in w}

\* What the steps of IstrSpec leave alone.
besideIstr == <<vars, headerVars, utf16Vars, loopVars, chepVars, blockVars, ringVars, i2cVars, handlerVars, uartVars>>

\* The events that interrupt: they are all unmasked by usb_initialize.
IstrEvents == {BitSOF, BitRST_DCON, BitCTR}

\* The value of the acknowledge write: !istr.bits() & !0x37fc0
AckValue(read) == BitNot(read) \cap BitNot(Bits(AckMask))

\* The peripheral raises a flag that is clear: a start of frame, a bus
\* reset, the completion of a transfer.
RaiseFlag ==
    /\ \E f \in IstrEvents :
         /\ f \notin ISTR /\ raised[f] < MaxEvents
         /\ ISTR' = ISTR \cup {f}
         /\ raised' = [raised EXCEPT ![f] = @ + 1]
    /\ UNCHANGED <<isr_at, isr_istr, served>>
    /\ UNCHANGED besideIstr

\* isr: let mut istr = usb.ISTR.read()
IsrRead ==
    /\ isr_at = "idle" /\ ISTR \cap IstrEvents # {}
    /\ isr_istr' = ISTR
    /\ isr_at' = "read"
    /\ UNCHANGED <<ISTR, raised, served>>
    /\ UNCHANGED besideIstr

\* isr: the acknowledge write.
IsrAck ==
    /\ isr_at = "read"
    /\ ISTR' = WriteISTR(ISTR, AckValue(isr_istr))
    /\ isr_at' = "acked"
    /\ UNCHANGED <<isr_istr, raised, served>>
    /\ UNCHANGED besideIstr

\* isr: start_of_frame() if SOF was read, usb_initialize() if RST_DCON was.
IsrServe ==
    /\ isr_at = "acked"
    /\ served' = [f \in IstrEvents |->
                    IF f \in {BitSOF, BitRST_DCON} \cap isr_istr
                    THEN served[f] + 1 ELSE served[f]]
    /\ isr_at' = "loop"
    /\ UNCHANGED <<ISTR, isr_istr, raised>>
    /\ UNCHANGED besideIstr

\* isr: one turn of the transfer-complete loop.  The handler clears the
\* endpoint's transaction flag, which drops CTR; then ISTR is read again.
IsrTurn ==
    /\ isr_at = "loop" /\ BitCTR \in isr_istr
    /\ served' = [served EXCEPT ![BitCTR] = @ + 1]
    /\ ISTR' = ISTR \ {BitCTR}
    /\ isr_istr' = ISTR'
    /\ UNCHANGED <<isr_at, raised>>
    /\ UNCHANGED besideIstr

\* isr: the loop ends and isr returns.
IsrExit ==
    /\ isr_at = "loop" /\ BitCTR \notin isr_istr
    /\ isr_at' = "idle"
    /\ UNCHANGED <<ISTR, isr_istr, raised, served>>
    /\ UNCHANGED besideIstr

\* The register after the peripheral's reset, isr not running.
IstrInit ==
    /\ ISTR = {}
    /\ isr_at = "idle"
    /\ isr_istr = {}
    /\ raised = [f \in IstrEvents |-> 0]
    /\ served = [f \in IstrEvents |-> 0]

IstrNext ==
    \/ RaiseFlag
    \/ IsrRead
    \/ IsrAck
    \/ IsrServe
    \/ IsrTurn
    \/ IsrExit

(* ------------------------- SetupHeader from memory --------------------- *)

\* The byte values tried at each of the 8 positions.
ByteSamples == {0, 1, 255}

\* A u32, held as its two 16-bit halves: its value is lo + 65536 * hi.
\* The u32 that a little-endian read finds at byte offset k of memory m.
WordAt(m, k) ==
    [lo |-> m[k + 1] + 256 * m[k + 2], hi |-> m[k + 3] + 256 * m[k + 4]]

\* The four bytes a u32 occupies in memory, in address order.
WordBytes(w) == <<w.lo % 256, w.lo \div 256, w.hi % 256, w.hi \div 256>>

\* The u16 field at byte offset k of the bytes b.
U16At(b, k) == b[k + 1] + 256 * b[k + 2]

\* SetupHeader::new with the two u16 fields read high byte first.
SetupHeader_new_big_endian(w0, w1) ==
    LET b == WordBytes(w0) \o WordBytes(w1)
    IN  [request_type |-> b[1], request |-> b[2],
         value_lo |-> b[3], value_hi |-> b[4],
         index |-> 256 * b[5] + b[6], length |-> 256 * b[7] + b[8]]

\* SetupHeader::new: the bytes of (w0, w1), w0 first, taken as the repr(C)
\* struct: four u8 at offsets 0..3, u16 at offsets 4 and 6.
SetupHeader_new(w0, w1) ==
    LET b == WordBytes(w0) \o WordBytes(w1)
    IN  [request_type |-> b[1], request |-> b[2],
         value_lo |-> b[3], value_hi |-> b[4],
         index |-> U16At(b, 4), length |-> U16At(b, 6)]

\* SetupHeader::from_ptr: read [u32; 2] at the pointer, then new.
SetupHeader_from_ptr(m) == SetupHeader_new(WordAt(m, 0), WordAt(m, 4))

\* Any 8 bytes in memory, no header constructed yet.
HeaderInit ==
    /\ mem \in [1..8 -> ByteSamples]
    /\ setup_hdr = DefaultHeader
    /\ built = "none"

\* The header variables while another specification runs.
HeaderIdle ==
    /\ mem = [i \in 1..8 |-> 0]
    /\ setup_hdr = DefaultHeader
    /\ built = "none"

\* What the steps of HeaderSpec leave alone.
besideHeader == <<vars, istrVars, utf16Vars, loopVars, chepVars, blockVars, ringVars, i2cVars, handlerVars, uartVars>>

\* A caller that has read the two words itself calls SetupHeader::new.
CallNew ==
    /\ built = "none"
    /\ setup_hdr' = SetupHeader_new(WordAt(mem, 0), WordAt(mem, 4))
    /\ built' = "new"
    /\ UNCHANGED mem
    /\ UNCHANGED besideHeader

\* A caller hands the pointer to SetupHeader::from_ptr.
CallFromPtr ==
    /\ built = "none"
    /\ setup_hdr' = SetupHeader_from_ptr(mem)
    /\ built' = "from_ptr"
    /\ UNCHANGED mem
    /\ UNCHANGED besideHeader

HeaderNext ==
    \/ CallNew
    \/ CallFromPtr

(* --------------------------- strings as UTF-16 ------------------------- *)

\* Longest string tried, in chars.
MaxChars == 3

\* The chars tried: 'a', U+FFFF, U+10000, U+1F534 and U+10FFFF.
CharSamples == {97, 65535, 65536, 128308, 1114111}

\* The strings tried.
Strings == UNION {[1..n -> CharSamples] : n \in 0..MaxChars}

\* str_utf16_count that counts one unit for every char.
str_utf16_count_chars(s) == Len(s)

\* str_utf16_count: 1 for a char below U+10000, 2 for any other.
RECURSIVE str_utf16_count_from(_, _, _)
str_utf16_count_from(s, k, n) ==
    IF k > Len(s) THEN n
    ELSE str_utf16_count_from(s, k + 1, n + (IF s[k] < 65536 THEN 1 ELSE 2))

str_utf16_count(s) == str_utf16_count_from(s, 1, 0)

\* u[i] = v on a slice: an index outside the slice panics.
Store(r, i, v) ==
    IF r.panicked \/ i >= Len(r.u) THEN [r EXCEPT !.panicked = TRUE]
    ELSE [r EXCEPT !.u[i + 1] = v]

\* str_to_utf16_inplace from the k-th char on, i being the next index of u.
RECURSIVE str_to_utf16_inplace_from(_, _, _, _)
str_to_utf16_inplace_from(r, s, k, i) ==
    IF k > Len(s) \/ r.panicked THEN r
    ELSE LET c == s[k]
         IN  IF c < 65536
             THEN str_to_utf16_inplace_from(
                      Store(r, i, c % 65536), s, k + 1, i + 1)
             ELSE LET excess == c - 65536
                      r1 == Store(r, i, ((excess \div 1024) % 1024) + 55296)
                      r2 == Store(r1, i + 1, (excess % 1024) + 56320)
                  IN  str_to_utf16_inplace_from(r2, s, k + 1, i + 2)

\* str_to_utf16_inplace(u, s): the buffer afterwards, and whether it panicked.
str_to_utf16_inplace(u, s) ==
    str_to_utf16_inplace_from([u |-> u, panicked |-> FALSE], s, 1, 0)

\* Any string, nothing computed yet.
Utf16Init ==
    /\ text \in Strings
    /\ units = 0
    /\ place = <<>>
    /\ stage = "start"

\* The string variables while another specification runs.
Utf16Idle ==
    /\ text = <<>>
    /\ units = 0
    /\ place = <<>>
    /\ stage = "start"

\* What the steps of Utf16Spec leave alone.
besideUtf16 == <<vars, istrVars, headerVars, loopVars, chepVars, blockVars, ringVars, i2cVars, handlerVars, uartVars>>

\* The caller counts the units and takes a zeroed buffer of that length.
CountUnits ==
    /\ stage = "start"
    /\ units' = str_utf16_count(text)
    /\ place' = [i \in 1..units' |-> 0]
    /\ stage' = "counted"
    /\ UNCHANGED text
    /\ UNCHANGED besideUtf16

\* The caller has the buffer filled.
FillPlace ==
    /\ stage = "counted"
    /\ LET r == str_to_utf16_inplace(place, text)
       IN  /\ place' = r.u
           /\ stage' = IF r.panicked THEN "panic" ELSE "filled"
    /\ UNCHANGED <<text, units>>
    /\ UNCHANGED besideUtf16

Utf16Next ==
    \/ CountUnits
    \/ FillPlace

(* ----------------------- the debug ring buffer ------------------------- *)

\* The length of Debug.buf, which is also the range of the u8 indices, and
\* the depth of the UART's transmit FIFO.
RingSize == 256

FIFO_SIZE == 8

\* The longest slice handed to write_bytes.
MaxBytes == 2

\* a.wrapping_sub(b) on u8
wrapping_sub(a, b) == (a - b) % RingSize

\* a.wrapping_add(b) on u8
wrapping_add(a, b) == (a + b) % RingSize

\* The loop of Debug::isr: send from r up to w, FIFO_SIZE bytes at most.
RECURSIVE isr_send(_, _, _)
isr_send(r, w, done) ==
    IF r # w /\ done < FIFO_SIZE
    THEN isr_send((r + 1) % RingSize, w, done + 1)
    ELSE [r |-> r, done |-> done]

besideRing == <<vars, istrVars, headerVars, utf16Vars, loopVars, chepVars, blockVars, i2cVars, handlerVars, uartVars>>

RingInit ==
    /\ ring_w = 0
    /\ ring_r = 0
    /\ ring_lw = 0
    /\ ring_left = 0
    /\ ring_pc = "idle"
    /\ ring_ie = FALSE
    /\ ring_stored = 0
    /\ ring_pub = 0

\* write_bytes(s) is called: it reads the write index.
WriterCall ==
    /\ ring_pc = "idle"
    /\ \E n \in 0..MaxBytes :
         /\ ring_left' = n
         /\ ring_pc' = IF n = 0 THEN "enable" ELSE "test"
    /\ ring_lw' = ring_w
    /\ UNCHANGED <<ring_w, ring_r, ring_ie, ring_stored, ring_pub>>
    /\ UNCHANGED besideRing

\* The test of the wait loop that never finds the ring full.
WriterTest_no_wait ==
    /\ ring_pc = "test"
    /\ ring_pc' = "store"
    /\ UNCHANGED <<ring_w, ring_r, ring_lw, ring_left, ring_ie, ring_stored,
                   ring_pub>>
    /\ UNCHANGED besideRing

\* The test of the wait loop: the ring is full when r is one ahead of w.
WriterTest ==
    /\ ring_pc = "test"
    /\ ring_pc' = IF wrapping_sub(ring_r, ring_lw) = 1 THEN "full"
                  ELSE "store"
    /\ UNCHANGED <<ring_w, ring_r, ring_lw, ring_left, ring_ie, ring_stored,
                   ring_pub>>
    /\ UNCHANGED besideRing

\* enable(w): publish the write index and enable the interrupt.
enable ==
    /\ ring_w' = ring_lw
    /\ ring_ie' = TRUE
    /\ ring_pub' = ring_stored

\* The body of the wait loop: enable(w), then push(), in which the
\* interrupt routine may run; then the test again.
WriterWait ==
    /\ ring_pc = "full"
    /\ enable
    /\ ring_pc' = "test"
    /\ UNCHANGED <<ring_r, ring_lw, ring_left, ring_stored>>
    /\ UNCHANGED besideRing

\* buf[w] = b; w = w.wrapping_add(1)
WriterStore ==
    /\ ring_pc = "store"
    /\ ring_lw' = wrapping_add(ring_lw, 1)
    /\ ring_left' = ring_left - 1
    /\ ring_stored' = ring_stored + 1
    /\ ring_pc' = IF ring_left' = 0 THEN "enable" ELSE "test"
    /\ UNCHANGED <<ring_w, ring_r, ring_ie, ring_pub>>
    /\ UNCHANGED besideRing

\* The enable(w) that ends write_bytes.
WriterEnable ==
    /\ ring_pc = "enable"
    /\ enable
    /\ ring_pc' = "idle"
    /\ UNCHANGED <<ring_r, ring_lw, ring_left, ring_stored>>
    /\ UNCHANGED besideRing

\* Debug::isr with the FIFO empty, entered by the interrupt between any two
\* steps of write_bytes or called by push(): it sends up to FIFO_SIZE bytes
\* and disables the interrupt when it has caught up with the write index.
RingIsr ==
    /\ ring_ie
    /\ LET o == isr_send(ring_r, ring_w, 0)
       IN  /\ ring_r' = o.r
           /\ ring_ie' = (o.r # ring_w)
           /\ ring_stored' = ring_stored - o.done
           /\ ring_pub' = ring_pub - o.done
    /\ UNCHANGED <<ring_w, ring_lw, ring_left, ring_pc>>
    /\ UNCHANGED besideRing

RingNext ==
    \/ WriterCall
    \/ WriterTest
    \/ WriterWait
    \/ WriterStore
    \/ WriterEnable
    \/ RingIsr

(* ------------- the debug output down to the transmitter ---------------- *)

\* The calls of write_bytes made.
MaxCalls == 3

\* The bytes passed to write_bytes over all calls.
MaxPassed == 260

\* The length of a slice that does not fit the ring: write_bytes has to wait
\* and the indices wrap.
LongSlice == 258

\* The lengths of the slices handed to write_bytes.
SliceLens == {0, 1, LongSlice}

\* What a run of Debug::isr leaves: the read index, the two UART flags, the
\* bytes it wrote to TDR.
IsrResult(r, txfe, txfeie, out) ==
    [r |-> r, txfe |-> txfe, txfeie |-> txfeie, out |-> out]

\* Debug::isr that sends without writing the read index back.
debug_isr_keep_r(r, w, buf, txfe, txfeie) ==
    IF ~txfe THEN IsrResult(r, txfe, txfeie, <<>>)
    ELSE LET o == isr_send(r, w, 0)
         IN  IsrResult(r,
                       o.done = 0,
                       IF o.r = w THEN FALSE ELSE txfeie,
                       [i \in 1..o.done |-> buf[(r + i - 1) % RingSize]])

\* Debug::isr without the test of the FIFO-empty flag.
debug_isr_no_txfe(r, w, buf, txfe, txfeie) ==
    LET o == isr_send(r, w, 0)
    IN  IsrResult(o.r,
                  txfe /\ o.done = 0,
                  IF o.r = w THEN FALSE ELSE txfeie,
                  [i \in 1..o.done |-> buf[(r + i - 1) % RingSize]])

\* Debug::isr that disables the FIFO-empty interrupt whenever it has sent.
debug_isr_disable_always(r, w, buf, txfe, txfeie) ==
    IF ~txfe THEN IsrResult(r, txfe, txfeie, <<>>)
    ELSE LET o == isr_send(r, w, 0)
         IN  IsrResult(o.r, o.done = 0, FALSE,
                       [i \in 1..o.done |-> buf[(r + i - 1) % RingSize]])

\* Debug::isr: nothing unless the FIFO is empty; else the bytes from r up to
\* w, FIFO_SIZE at most, go to TDR (the FIFO is no longer empty once one has
\* gone), r is written back, and TXFEIE is cleared when r has reached w.
debug_isr(r, w, buf, txfe, txfeie) ==
    IF ~txfe THEN IsrResult(r, txfe, txfeie, <<>>)
    ELSE LET o == isr_send(r, w, 0)
         IN  IsrResult(o.r,
                       o.done = 0,
                       IF o.r = w THEN FALSE ELSE txfeie,
                       [i \in 1..o.done |-> buf[(r + i - 1) % RingSize]])

besideUart == <<vars, istrVars, headerVars, utf16Vars, loopVars, chepVars, blockVars, ringVars, i2cVars, handlerVars>>

UartInit ==
    /\ dbg_w = 0
    /\ dbg_r = 0
    /\ dbg_buf = [i \in 0..(RingSize - 1) |-> -1]
    /\ dbg_lw = 0
    /\ dbg_left = 0
    /\ dbg_pc = "idle"
    /\ dbg_txfeie = FALSE
    /\ dbg_txfe = TRUE
    /\ dbg_tdr = <<>>
    /\ dbg_passed = 0
    /\ dbg_ncalls = 0

\* write_bytes(s) is called: let mut w = self.w.read()
DbgCall ==
    /\ dbg_pc = "idle" /\ dbg_ncalls < MaxCalls
    /\ \E n \in SliceLens :
         /\ dbg_passed + n <= MaxPassed
         /\ dbg_left' = n
         /\ dbg_passed' = dbg_passed + n
         /\ dbg_pc' = IF n = 0 THEN "last_publish" ELSE "test"
    /\ dbg_lw' = dbg_w
    /\ dbg_ncalls' = dbg_ncalls + 1
    /\ UNCHANGED <<dbg_w, dbg_r, dbg_buf, dbg_txfeie, dbg_txfe, dbg_tdr>>
    /\ UNCHANGED besideUart

\* while self.r.read().wrapping_sub(w) == 1
DbgTest ==
    /\ dbg_pc = "test"
    /\ dbg_pc' = IF wrapping_sub(dbg_r, dbg_lw) = 1 THEN "publish" ELSE "store"
    /\ UNCHANGED <<dbg_w, dbg_r, dbg_buf, dbg_lw, dbg_left, dbg_txfeie,
                   dbg_txfe, dbg_tdr, dbg_passed, dbg_ncalls>>
    /\ UNCHANGED besideUart

\* enable(w), first half: self.w.write(w)
DbgPublish ==
    /\ dbg_pc \in {"publish", "last_publish"}
    /\ dbg_w' = dbg_lw
    /\ dbg_pc' = IF dbg_pc = "publish" THEN "cr1" ELSE "last_cr1"
    /\ UNCHANGED <<dbg_r, dbg_buf, dbg_lw, dbg_left, dbg_txfeie, dbg_txfe,
                   dbg_tdr, dbg_passed, dbg_ncalls>>
    /\ UNCHANGED besideUart

\* enable(w), second half: uart.CR1.write(.. TXFEIE().set_bit()); the last
\* enable ends write_bytes.
DbgSetCr1 ==
    /\ dbg_pc \in {"cr1", "last_cr1"}
    /\ dbg_txfeie' = TRUE
    /\ dbg_pc' = IF dbg_pc = "cr1" THEN "push" ELSE "idle"
    /\ UNCHANGED <<dbg_w, dbg_r, dbg_buf, dbg_lw, dbg_left, dbg_txfe,
                   dbg_tdr, dbg_passed, dbg_ncalls>>
    /\ UNCHANGED besideUart

\* A run of isr from where it is entered.
RunIsr ==
    LET o == debug_isr(dbg_r, dbg_w, dbg_buf, dbg_txfe, dbg_txfeie)
    IN  /\ dbg_r' = o.r
        /\ dbg_txfe' = o.txfe
        /\ dbg_txfeie' = o.txfeie
        /\ dbg_tdr' = dbg_tdr \o o.out
        /\ UNCHANGED <<dbg_w, dbg_buf, dbg_lw, dbg_left, dbg_passed,
                       dbg_ncalls>>
        /\ UNCHANGED besideUart

\* push(): after WFE the interrupt is found pending and isr is called.
DbgPushIsr ==
    /\ dbg_pc = "push"
    /\ RunIsr
    /\ UNCHANGED dbg_pc

\* push() returns: the interrupt is not, or no longer, pending.
DbgPushReturn ==
    /\ dbg_pc = "push"
    /\ dbg_pc' = "test"
    /\ UNCHANGED <<dbg_w, dbg_r, dbg_buf, dbg_lw, dbg_left, dbg_txfeie,
                   dbg_txfe, dbg_tdr, dbg_passed, dbg_ncalls>>
    /\ UNCHANGED besideUart

\* buf[w] = b; w = w.wrapping_add(1): the bytes are numbered in the order
\* they are passed to write_bytes.
DbgStore ==
    /\ dbg_pc = "store"
    /\ dbg_buf' = [dbg_buf EXCEPT ![dbg_lw] = dbg_passed - dbg_left]
    /\ dbg_lw' = wrapping_add(dbg_lw, 1)
    /\ dbg_left' = dbg_left - 1
    /\ dbg_pc' = IF dbg_left' = 0 THEN "last_publish" ELSE "test"
    /\ UNCHANGED <<dbg_w, dbg_r, dbg_txfeie, dbg_txfe, dbg_tdr, dbg_passed,
                   dbg_ncalls>>
    /\ UNCHANGED besideUart

\* The UART interrupt, raised while the FIFO is empty and TXFEIE is set,
\* runs isr between two steps of write_bytes.
DbgInterrupt ==
    /\ dbg_txfeie /\ dbg_txfe
    /\ RunIsr
    /\ UNCHANGED dbg_pc

\* The transmitter has shifted out what was in the FIFO.
UartDrain ==
    /\ ~dbg_txfe
    /\ dbg_txfe' = TRUE
    /\ UNCHANGED <<dbg_w, dbg_r, dbg_buf, dbg_lw, dbg_left, dbg_pc,
                   dbg_txfeie, dbg_tdr, dbg_passed, dbg_ncalls>>
    /\ UNCHANGED besideUart

UartNext ==
    \/ DbgCall
    \/ DbgTest
    \/ DbgPublish
    \/ DbgSetCr1
    \/ DbgPushIsr
    \/ DbgPushReturn
    \/ DbgStore
    \/ DbgInterrupt
    \/ UartDrain

(* --------------------- the I2C transaction engine ---------------------- *)

\* The flags of I2cContext.outstanding.
F_I2C == 1

F_DMA_RX == 2

F_DMA_TX == 4

\* The longest read buffer handed to write_read.
MaxRead == 2

NoStatus == [TC |-> FALSE, STOPF |-> FALSE, ERR |-> FALSE]

besideI2c == <<vars, istrVars, headerVars, utf16Vars, loopVars, chepVars, blockVars, ringVars, handlerVars, uartVars>>

I2cInit ==
    /\ pending_len = 0
    /\ outstanding = {}
    /\ error = 0
    /\ i2c_status = NoStatus
    /\ i2c_phase = "idle"
    /\ i2c_caller = "idle"
    /\ i2c_read = FALSE
    /\ i2c_hung = FALSE
    /\ i2c_errs = FALSE
    /\ i2c_rec = FALSE
    /\ i2c_ret = "none"
    /\ i2c_prev = "none"

\* arm that sets the flags and leaves the error field as it is.
arm_keep_error(flags) ==
    /\ error' = error
    /\ outstanding' = flags

\* I2cContext::arm(flags)
arm(flags) ==
    /\ error' = 0
    /\ outstanding' = flags

\* write_read(addr, wdata, rdata): write_read_start, after which the caller
\* waits (Wait::wait, or the drop of the Wait).  It is thread code: while a
\* flag of I2C.ISR is set the interrupt is taken first.
write_read_start ==
    /\ i2c_caller = "idle" /\ i2c_status = NoStatus
    /\ \E rlen \in 0..MaxRead : pending_len' = rlen
    /\ arm({F_I2C, F_DMA_TX, F_DMA_RX})
    /\ i2c_phase' = "write"
    /\ i2c_caller' = "wait"
    /\ i2c_read' = FALSE
    /\ i2c_hung' = FALSE
    /\ i2c_errs' = i2c_status.ERR
    /\ i2c_rec' = FALSE
    /\ i2c_ret' = "none"
    /\ i2c_prev' = i2c_ret
    /\ UNCHANGED i2c_status
    /\ UNCHANGED besideI2c

\* The peripheral has sent the last byte of the write phase: transfer
\* complete, the clock held until software acts.
HwTransferComplete ==
    /\ i2c_phase = "write"
    /\ i2c_status' = [i2c_status EXCEPT !.TC = TRUE]
    /\ i2c_phase' = "tc"
    /\ UNCHANGED <<pending_len, outstanding, error, i2c_caller, i2c_read,
                   i2c_hung, i2c_errs, i2c_rec, i2c_ret,
                   i2c_prev>>
    /\ UNCHANGED besideI2c

\* The peripheral detects a STOP condition: the one that ends the read
\* phase, or one during the transaction, which may end it.
HwStop ==
    /\ i2c_phase # "idle" /\ ~i2c_status.STOPF
    /\ i2c_status' = [i2c_status EXCEPT !.STOPF = TRUE]
    /\ i2c_phase' \in IF i2c_phase = "read" THEN {"idle"}
                       ELSE {i2c_phase, "idle"}
    /\ UNCHANGED <<pending_len, outstanding, error, i2c_caller, i2c_read,
                   i2c_hung, i2c_errs, i2c_rec, i2c_ret,
                   i2c_prev>>
    /\ UNCHANGED besideI2c

\* The peripheral raises an error flag: arbitration lost, bus error or NACK.
HwError ==
    /\ i2c_phase \in {"write", "read"} /\ ~i2c_status.ERR
    /\ i2c_status' = [i2c_status EXCEPT !.ERR = TRUE]
    /\ i2c_errs' = TRUE
    /\ UNCHANGED <<pending_len, outstanding, error, i2c_phase, i2c_caller,
                   i2c_read, i2c_hung, i2c_rec, i2c_ret,
                   i2c_prev>>
    /\ UNCHANGED besideI2c

\* The completion handler of a DMA channel clears the channel's flag: the
\* TX channel has fed the write phase, the RX channel has taken the bytes of
\* the read phase.
DmaDone ==
    /\ i2c_caller = "wait"
    /\ \E f \in outstanding \cap {F_DMA_TX, F_DMA_RX} :
         /\ f = F_DMA_RX => i2c_read
         /\ outstanding' = outstanding \ {f}
    /\ UNCHANGED <<pending_len, error, i2c_status, i2c_phase, i2c_caller,
                   i2c_read, i2c_hung, i2c_errs, i2c_rec, i2c_ret,
                   i2c_prev>>
    /\ UNCHANGED besideI2c

\* The flags i2c_isr reads send it to its error branch.
IsrErrorBranch ==
    /\ ~(pending_len # 0 /\ i2c_status.TC)
    /\ ~i2c_status.STOPF
    /\ i2c_status.ERR

\* i2c_isr that takes the pending length only when it starts the read.
i2c_isr_keep_pending ==
    /\ i2c_caller # "panic"
    /\ i2c_status.TC \/ i2c_status.STOPF \/ i2c_status.ERR
    /\ LET status == i2c_status
           todo   == pending_len
       IN  IF todo # 0 /\ status.TC
           THEN /\ pending_len' = 0
                /\ i2c_status' = [status EXCEPT !.TC = FALSE]
                /\ i2c_phase' = "read"
                /\ i2c_read' = TRUE
                /\ UNCHANGED <<outstanding, error, i2c_caller, i2c_hung>>
           ELSE IF status.STOPF
           THEN /\ i2c_status' = [status EXCEPT !.STOPF = FALSE]
                /\ outstanding' = outstanding \ {F_I2C}
                /\ i2c_hung' = (i2c_hung \/ (todo # 0 /\ ~status.ERR))
                /\ UNCHANGED <<pending_len, error, i2c_phase, i2c_caller,
                               i2c_read>>
           ELSE IF status.ERR
           THEN /\ i2c_status' = [status EXCEPT !.ERR = FALSE]
                /\ outstanding' = {}
                /\ error' = 1
                /\ UNCHANGED <<pending_len, i2c_phase, i2c_caller, i2c_read,
                               i2c_hung>>
           ELSE /\ i2c_caller' = "panic"
                /\ UNCHANGED <<pending_len, outstanding, error, i2c_status,
                               i2c_phase, i2c_read, i2c_hung>>
    /\ i2c_rec' = (i2c_rec \/ IsrErrorBranch)
    /\ UNCHANGED <<i2c_errs, i2c_ret, i2c_prev>>
    /\ UNCHANGED besideI2c

\* i2c_isr, entered while a flag of I2C.ISR is set.
i2c_isr ==
    /\ i2c_caller # "panic"
    /\ i2c_status.TC \/ i2c_status.STOPF \/ i2c_status.ERR
    /\ LET status == i2c_status
           todo   == pending_len
       IN  /\ pending_len' = 0
           /\ IF todo # 0 /\ status.TC
              THEN /\ i2c_status' = [status EXCEPT !.TC = FALSE]
                   /\ i2c_phase' = "read"
                   /\ i2c_read' = TRUE
                   /\ UNCHANGED <<outstanding, error, i2c_caller, i2c_hung>>
              ELSE IF status.STOPF
              THEN /\ i2c_status' = [status EXCEPT !.STOPF = FALSE]
                   /\ outstanding' = outstanding \ {F_I2C}
                   /\ i2c_hung' = (i2c_hung \/ (todo # 0 /\ ~status.ERR))
                   /\ UNCHANGED <<error, i2c_phase, i2c_caller, i2c_read>>
              ELSE IF status.ERR
              THEN /\ i2c_status' = [status EXCEPT !.ERR = FALSE]
                   /\ outstanding' = {}
                   /\ error' = 1
                   /\ UNCHANGED <<i2c_phase, i2c_caller, i2c_read, i2c_hung>>
              ELSE /\ i2c_caller' = "panic"
                   /\ UNCHANGED <<outstanding, error, i2c_status, i2c_phase,
                                  i2c_read, i2c_hung>>
    /\ i2c_rec' = (i2c_rec \/ IsrErrorBranch)
    /\ UNCHANGED <<i2c_errs, i2c_ret, i2c_prev>>
    /\ UNCHANGED besideI2c

\* I2cContext::wait returns once nothing is outstanding; after an error it
\* resets the peripheral first (error_cleanup).  It is thread code, run when
\* no interrupt is to be taken.
wait ==
    /\ i2c_caller = "wait" /\ outstanding = {} /\ i2c_status = NoStatus
    /\ i2c_caller' = "waited"
    /\ IF error # 0
       THEN i2c_status' = NoStatus /\ i2c_phase' = "idle"
       ELSE UNCHANGED <<i2c_status, i2c_phase>>
    /\ UNCHANGED <<pending_len, outstanding, error, i2c_read, i2c_hung,
                   i2c_errs, i2c_rec, i2c_ret,
                   i2c_prev>>
    /\ UNCHANGED besideI2c

\* Wait::wait, after CONTEXT.wait(): the result is read from the error field.
WaitResult ==
    /\ i2c_caller = "waited" /\ i2c_status = NoStatus
    /\ i2c_ret' = IF error = 0 THEN "Ok" ELSE "Err"
    /\ i2c_caller' = "idle"
    /\ UNCHANGED <<pending_len, outstanding, error, i2c_status, i2c_phase,
                   i2c_read, i2c_hung, i2c_errs, i2c_rec, i2c_prev>>
    /\ UNCHANGED besideI2c

\* The drop of a Wait: CONTEXT.wait() alone, no result.
WaitDrop ==
    /\ i2c_caller = "waited"
    /\ i2c_caller' = "idle"
    /\ UNCHANGED <<pending_len, outstanding, error, i2c_status, i2c_phase,
                   i2c_read, i2c_hung, i2c_errs, i2c_rec, i2c_ret,
                   i2c_prev>>
    /\ UNCHANGED besideI2c

I2cNext ==
    \/ write_read_start
    \/ HwTransferComplete
    \/ HwStop
    \/ HwError
    \/ DmaDone
    \/ i2c_isr
    \/ wait
    \/ WaitResult
    \/ WaitDrop

(* ------------------- handlers called on any state ---------------------- *)

\* The states of the control engine the handlers are called on: the default
\* one, one with IN data left to send, one waiting for the STATUS packet of a
\* SET_ADDRESS, one waiting for OUT data, one configured with nothing pending.
ControlSamples ==
    {DefaultControl,
     [DefaultControl EXCEPT !.setup = Header(64, 153, 0, 0, MaxLen),
                            !.setup_data = TxResult("ep_data", MaxPacket, 0, "ep_tx_cb"),
                            !.setup_short = TRUE],
     [DefaultControl EXCEPT !.setup = Header(0, 5, 1, 0, 0),
                            !.pending_tx_cb = "do_set_address"],
     [DefaultControl EXCEPT !.setup = Header(64, 153, 0, 0, 8),
                            !.pending_rx_cb = "ep_rx_cb"],
     [DefaultControl EXCEPT !.configured = TRUE]}

\* The values of CHEP0 the handlers are called on.
ChepSamples ==
    [STATRX : {StatNak, StatValid}, STATTX : {StatNak, StatValid},
     DTOGRX : BOOLEAN, DTOGTX : {TRUE},
     VTRX : BOOLEAN, VTTX : BOOLEAN, SETUP : BOOLEAN]

\* The headers found in the control RX buffer.
BufSamples == {Header(0, 5, 1, 0, 0), Header(64, 153, 0, 0, 8)}

\* The machine made of a control state and a CHEP0 value, the peripheral
\* initialized and running.
HandlerMachine(c, r) ==
    [ctl |-> c, chep |-> r,
     bd_tx |-> chep_bd_tx(CTRL_TX_OFFSET, 0),
     bd_rx |-> [chep_block(MaxPacket, CTRL_RX_OFFSET) EXCEPT !.count = MinSetupLen],
     daddr |-> [EF |-> TRUE, ADD |-> 0],
     cntr |-> [PDWN |-> FALSE, USBRST |-> FALSE, RST_DCONM |-> TRUE,
               CTRM |-> TRUE, SOFM |-> TRUE],
     calls |-> <<>>, g |-> NoTransfer]

besideHandler == <<vars, istrVars, headerVars, utf16Vars, loopVars, chepVars, blockVars, ringVars, i2cVars, uartVars>>

HandlerInit ==
    /\ \E c \in ControlSamples, r \in ChepSamples : hnd_m = HandlerMachine(c, r)
    /\ hnd_buf \in BufSamples
    /\ hnd_out = hnd_m
    /\ hnd_op = "none"

HandlerIdle ==
    /\ hnd_m = HandlerMachine(DefaultControl, ChepReset)
    /\ hnd_buf = DefaultHeader
    /\ hnd_out = hnd_m
    /\ hnd_op = "none"

\* The call control.tx_handler(eps).
CallTxHandler ==
    /\ hnd_op = "none"
    /\ hnd_out' = tx_handler(hnd_m)
    /\ hnd_op' = "tx"
    /\ UNCHANGED <<hnd_m, hnd_buf>>
    /\ UNCHANGED besideHandler

\* The call control.rx_handler(eps).
CallRxHandler ==
    /\ hnd_op = "none"
    /\ hnd_out' \in rx_handler(hnd_m, hnd_buf)
    /\ hnd_op' = "rx"
    /\ UNCHANGED <<hnd_m, hnd_buf>>
    /\ UNCHANGED besideHandler

HandlerNext ==
    \/ CallTxHandler
    \/ CallRxHandler

(* --------------------- RX buffer descriptors --------------------------- *)

\* The block sizes tried: every size up to a little above the largest block,
\* and the sizes around the end of the packet memory.
MaxBlock == 1060

SizeSamples == (0..MaxBlock) \cup {2047, 2048, 2049}

\* The offsets tried: the start of the packet memory, the control buffers,
\* and the offsets around the last one that leaves room for a block.
OffsetSamples == {0, 1, 128, 192, 1024, 1025, 1026, 2016, 2047, 2048, 2049}

besideBlock == <<vars, istrVars, headerVars, utf16Vars, loopVars, chepVars, ringVars, i2cVars, handlerVars, uartVars>>

BlockInit ==
    /\ blk_size \in SizeSamples
    /\ blk_offset \in OffsetSamples
    /\ blk_value = [code |-> 0, count |-> 0, offset |-> 0]
    /\ blk_stage = "call"

BlockIdle ==
    /\ blk_size = 0
    /\ blk_offset = 0
    /\ blk_value = [code |-> 0, count |-> 0, offset |-> 0]
    /\ blk_stage = "call"

\* The call chep_block::<blk_size>(blk_offset).
CallBlock ==
    /\ blk_stage = "call"
    /\ blk_value' = chep_block(blk_size, blk_offset)
    /\ blk_stage' = "done"
    /\ UNCHANGED <<blk_size, blk_offset>>
    /\ UNCHANGED besideBlock

BlockNext == CallBlock

(* ------------------ writes to an endpoint register --------------------- *)

\* The values an endpoint register can read as.
ChepValues ==
    [STATRX : 0..3, STATTX : 0..3, DTOGRX : BOOLEAN, DTOGTX : BOOLEAN,
     VTRX : BOOLEAN, VTTX : BOOLEAN, SETUP : BOOLEAN]

\* No function of the writer called.
NoneNamed == [stat_rx |-> -1, stat_tx |-> -1, dtogrx |-> -1, dtogtx |-> -1]

\* The writes that are composed: each of the four functions called or not,
\* with any status 0..3 and any toggle (0 for false, 1 for true).
NamedTargets ==
    [stat_rx : -1..3, stat_tx : -1..3, dtogrx : -1..1, dtogtx : -1..1]

\* chep.write(|w| w.control() ...): the value written when the functions
\* named in n are called with the value c read.
ComposeWrite(c, n) ==
    LET w1 == IF n.stat_rx >= 0 THEN stat_rx(control, c, n.stat_rx)
              ELSE control
        w2 == IF n.stat_tx >= 0 THEN stat_tx(w1, c, n.stat_tx) ELSE w1
        w3 == IF n.dtogrx >= 0 THEN dtogrx(w2, c, n.dtogrx = 1) ELSE w2
        w4 == IF n.dtogtx >= 0 THEN dtogtx(w3, c, n.dtogtx = 1) ELSE w3
    IN  w4

besideChep == <<vars, istrVars, headerVars, utf16Vars, loopVars, blockVars, ringVars, i2cVars, handlerVars, uartVars>>

ChepInit ==
    /\ chep_read \in ChepValues
    /\ chep_now = chep_read
    /\ chep_named = NoneNamed
    /\ chep_stage = "read"

ChepIdle ==
    /\ chep_read = ChepReset
    /\ chep_now = ChepReset
    /\ chep_named = NoneNamed
    /\ chep_stage = "read"

\* The write, the register being what was read.
WriteChep ==
    /\ chep_stage = "read"
    /\ \E n \in NamedTargets :
         /\ chep_named' = n
         /\ chep_now' = ChepWrite(chep_now, ComposeWrite(chep_read, n))
    /\ chep_stage' = "written"
    /\ UNCHANGED chep_read
    /\ UNCHANGED besideChep

\* The register is read again for the next write.
ReadChep ==
    /\ chep_stage = "written"
    /\ chep_read' = chep_now
    /\ chep_named' = NoneNamed
    /\ chep_stage' = "read"
    /\ UNCHANGED chep_now
    /\ UNCHANGED besideChep

ChepNext ==
    \/ WriteChep
    \/ ReadChep

(* -------------------- the transfer-complete loop ----------------------- *)

\* The completions the peripheral raises in one run, and the handler calls
\* of one invocation that are followed.
MaxArrivals == 2

MaxTurns == 3

\* The values of istr.bits() & 31, and those the loop has an arm for.
Codes == 0..31

KnownCodes == (0..7) \cup (16..23)

\* ISTR as the loop reads it: CTR while a completion is pending, and then
\* the code of one of them.
LoopRead(p) ==
    IF p = {} THEN {[CTR |-> FALSE, code |-> 0]}
    ELSE {[CTR |-> TRUE, code |-> c] : c \in p}

\* The match of the loop with every tx_handler taken for the receive codes
\* too.
HandlerOf_tx_only(code) ==
    CASE code = 0 -> <<"control_tx_handler", 0>>
      [] code \in 1..7 -> <<"tx_handler", code>>
      [] code = 16 -> <<"control_tx_handler", 0>>
      [] code \in 17..23 -> <<"tx_handler", code - 16>>
      [] OTHER -> <<"break", 0>>

\* The match of the loop: the handler called for a code, or the break.
HandlerOf(code) ==
    CASE code = 0 -> <<"control_tx_handler", 0>>
      [] code \in 1..7 -> <<"tx_handler", code>>
      [] code = 16 -> <<"control_rx_handler", 0>>
      [] code \in 17..23 -> <<"rx_handler", code - 16>>
      [] OTHER -> <<"break", 0>>

besideLoop == <<vars, istrVars, headerVars, utf16Vars, chepVars, blockVars, ringVars, i2cVars, handlerVars, uartVars>>

LoopInit ==
    /\ pend = {}
    /\ loop_pc = "idle"
    /\ loop_istr = [CTR |-> FALSE, code |-> 0]
    /\ handled = <<>>
    /\ reads = 0
    /\ at_entry = {}
    /\ left = "none"
    /\ kept = FALSE
    /\ arrived = 0

\* The peripheral completes a transfer on some endpoint.
Complete ==
    /\ arrived < MaxArrivals
    /\ \E c \in Codes \ pend : pend' = pend \cup {c}
    /\ arrived' = arrived + 1
    /\ UNCHANGED <<loop_pc, loop_istr, handled, reads, at_entry, left, kept>>
    /\ UNCHANGED besideLoop

\* isr is entered and reads ISTR.
LoopEnter ==
    /\ loop_pc = "idle"
    /\ loop_pc' = "loop"
    /\ \E r \in LoopRead(pend) : loop_istr' = r
    /\ handled' = <<>>
    /\ reads' = 1
    /\ at_entry' = pend
    /\ left' = "none"
    /\ kept' = FALSE
    /\ UNCHANGED <<pend, arrived>>
    /\ UNCHANGED besideLoop

\* The handler of a completion has run: the control handlers clear the flag
\* they are called for, a handler of an Endpoint Capability may leave it.
LoopHandled(code) ==
    /\ \E clears \in IF code \in {0, 16} THEN {TRUE} ELSE BOOLEAN :
         /\ pend' = IF clears THEN pend \ {code} ELSE pend
         /\ kept' = (kept \/ ~clears)
    /\ handled' = Append(handled, [code |-> code, fn |-> HandlerOf(code)])
    /\ \E r \in LoopRead(pend') : loop_istr' = r
    /\ reads' = reads + 1
    /\ UNCHANGED <<loop_pc, at_entry, left, arrived>>

\* A turn of the loop in which a code without an arm is waited out instead of
\* breaking.
LoopTurn_no_break ==
    /\ loop_pc = "loop" /\ loop_istr.CTR /\ Len(handled) < MaxTurns
    /\ IF HandlerOf(loop_istr.code)[1] = "break"
       THEN UNCHANGED loopVars
       ELSE LoopHandled(loop_istr.code)
    /\ UNCHANGED besideLoop

\* One turn of the loop.
LoopTurn ==
    /\ loop_pc = "loop" /\ loop_istr.CTR /\ Len(handled) < MaxTurns
    /\ IF HandlerOf(loop_istr.code)[1] = "break"
       THEN /\ loop_pc' = "idle"
            /\ left' = "break"
            /\ UNCHANGED <<pend, loop_istr, handled, reads, at_entry, kept,
                           arrived>>
       ELSE LoopHandled(loop_istr.code)
    /\ UNCHANGED besideLoop

\* The loop ends when CTR reads clear.
LoopExit ==
    /\ loop_pc = "loop" /\ ~loop_istr.CTR
    /\ loop_pc' = "idle"
    /\ left' = "end"
    /\ UNCHANGED <<pend, loop_istr, handled, reads, at_entry, kept, arrived>>
    /\ UNCHANGED besideLoop

LoopNext ==
    \/ Complete
    \/ LoopEnter
    \/ LoopTurn
    \/ LoopExit

(* ---------------------------- specification ---------------------------- *)

\* The state after construction: USB_State::default(), the peripheral in
\* power-down with its registers at their reset values.
UsbInit ==
    /\ ctl = DefaultControl
    /\ chep = ChepReset
    /\ bd_tx = chep_bd_tx(0, 0)
    /\ bd_rx = [code |-> 0, count |-> 0, offset |-> 0]
    /\ rxbuf = DefaultHeader
    /\ daddr = [EF |-> FALSE, ADD |-> 0]
    /\ cntr = [PDWN |-> TRUE, USBRST |-> TRUE, RST_DCONM |-> FALSE,
               CTRM |-> FALSE, SOFM |-> FALSE]
    /\ istr = [RST |-> FALSE, SOF |-> FALSE]
    /\ pc = "idle"
    /\ lat = [CTR |-> FALSE, code |-> 0]
    /\ calls = <<>>
    /\ last = NoLast
    /\ g = NoTransfer

Init == UsbInit /\ IstrInit /\ HeaderIdle /\ Utf16Idle /\ LoopInit /\ ChepIdle /\ BlockIdle /\ RingInit /\ I2cInit /\ HandlerIdle /\ UartInit

Next ==
    \/ AppInit
    \/ IsrEntry
    \/ IsrDispatch
    \/ IsrReturn
    \/ HostSetup
    \/ HostOut
    \/ HostIn
    \/ BusReset
    \/ StartOfFrame

Spec == Init /\ [][Next]_vars

\* The dispatcher's read and acknowledge of ISTR against the peripheral
\* raising flags.
IstrSpec == Init /\ [][IstrNext]_istrVars

\* The two constructors of SetupHeader applied to any 8 bytes.
HeaderSpecInit == UsbInit /\ IstrInit /\ HeaderInit /\ Utf16Idle /\ LoopInit /\ ChepIdle /\ BlockIdle /\ RingInit /\ I2cInit /\ HandlerIdle /\ UartInit

HeaderSpec == HeaderSpecInit /\ [][HeaderNext]_headerVars

\* The descriptor generator's use of the two string functions on any string.
Utf16SpecInit == UsbInit /\ IstrInit /\ HeaderIdle /\ Utf16Init /\ LoopInit /\ ChepIdle /\ BlockIdle /\ RingInit /\ I2cInit /\ HandlerIdle /\ UartInit

Utf16Spec == Utf16SpecInit /\ [][Utf16Next]_utf16Vars

\* Read-modify-writes of an endpoint register from any value.
ChepSpecInit == UsbInit /\ IstrInit /\ HeaderIdle /\ Utf16Idle /\ LoopInit /\ ChepInit /\ BlockIdle /\ RingInit /\ I2cInit /\ HandlerIdle /\ UartInit

ChepSpec == ChepSpecInit /\ [][ChepNext]_chepVars

\* chep_block for any block size and offset.
BlockSpecInit == UsbInit /\ IstrInit /\ HeaderIdle /\ Utf16Idle /\ LoopInit /\ ChepIdle /\ BlockInit /\ RingInit /\ I2cInit /\ HandlerIdle /\ UartInit

BlockSpec == BlockSpecInit /\ [][BlockNext]_blockVars

\* tx_handler and rx_handler called on any state of the engine and any value
\* of the endpoint register.
HandlerSpecInit == UsbInit /\ IstrInit /\ HeaderIdle /\ Utf16Idle /\ LoopInit /\ ChepIdle /\ BlockIdle /\ RingInit /\ I2cInit /\ HandlerInit /\ UartInit

HandlerSpec == HandlerSpecInit /\ [][HandlerNext]_handlerVars

\* One caller of write_bytes against the UART interrupt.
RingSpec == Init /\ [][RingNext]_ringVars

\* One caller of write_bytes, the UART interrupt and the transmitter.
UartSpec == Init /\ [][UartNext]_uartVars

\* The same with the processor and the transmitter making progress: the
\* transmitter empties its FIFO, a raised interrupt is taken, and write_bytes
\* goes on when it can.
UartLive ==
    /\ Init /\ [][UartNext]_uartVars
    /\ WF_uartVars(UartDrain)
    /\ WF_uartVars(DbgInterrupt)
    /\ WF_uartVars(DbgTest \/ DbgPublish \/ DbgSetCr1 \/ DbgPushReturn \/ DbgStore)

\* A caller of write_read against i2c_isr and the peripheral.
I2cSpec == Init /\ [][I2cNext]_i2cVars

\* The transfer-complete loop against completions on any endpoint.
LoopSpec == Init /\ [][LoopNext]_loopVars

\* The same with the processor making progress: isr, once entered, keeps
\* running.
LoopLive ==
    /\ Init /\ [][LoopNext]_loopVars
    /\ WF_loopVars(LoopTurn) /\ WF_loopVars(LoopExit)


(* ----------------------------- properties ------------------------------ *)

\* n bytes cut into packets of MaxPacket bytes, the rest last.
Pieces(n) ==
    [i \in 1..(n \div MaxPacket) |-> MaxPacket]
    \o (IF n % MaxPacket # 0 THEN <<n % MaxPacket>> ELSE <<>>)

\* The packet lengths of an IN transfer of L bytes against wLength R: the
\* pieces of min(L, R), then an empty packet when the pieces fill whole
\* packets and the host asked for more.  A transfer of no bytes is its empty
\* packet.
ExpectedPackets(L, R) ==
    LET n == Min(L, R)
    IN  IF n = 0 THEN <<0>>
        ELSE Pieces(n)
             \o (IF n % MaxPacket = 0 /\ L < R THEN <<0>> ELSE <<>>)

\* C1: for a SETUP with wLength R whose handler returns Tx data of L bytes,
\* the packet lengths armed on endpoint 0, the first by the SETUP handling and
\* then one per TX completion, are min(L, R) cut into 64-byte pieces, followed
\* by one empty packet if and only if min(L, R) is a positive multiple of 64
\* and L < R; each packet is armed with TX status valid and its length in the
\* TX buffer descriptor, and no packet is longer than 64 bytes.
C1_PacketSequence ==
    /\ g.isTx =>
          /\ IsPrefix(g.log, ExpectedPackets(g.L, g.R))
          /\ g.done <=> g.log = ExpectedPackets(g.L, g.R)
          /\ \A i \in 1..Len(g.log) : g.log[i] <= MaxPacket
    /\ g.armed =>
          /\ chep.STATTX = StatValid
          /\ bd_tx = chep_bd_tx(CTRL_TX_OFFSET, g.log[Len(g.log)])

\* C1 witness: a transfer of 64 bytes against a larger wLength has armed its
\* full packet and then the empty one.
C1_Witness ==
    /\ g.isTx /\ g.done /\ g.armed
    /\ g.L = MaxPacket /\ g.R > MaxPacket
    /\ g.log = <<MaxPacket, 0>>
    /\ last.op = "ctl_tx"

\* C2: for a SET_ADDRESS SETUP with value V the address-apply callback is
\* invoked only after the TX completion of the empty STATUS packet of that
\* same transfer, once, and the device address register is not written with V
\* before: whenever do_set_address runs, it was stored by the transfer of the
\* last SETUP processed, the TX completion it runs on is that of the last
\* packet this transfer armed, the header it is given is a SET_ADDRESS header,
\* and the step that processes the SETUP leaves the address register alone.
C2_AddressAfterStatus ==
    /\ g.inv.cb = "do_set_address" =>
          /\ g.inv.cbAge = "cur"
          /\ g.inv.vtAge = "cur" /\ g.inv.vtFinal
          /\ g.inv.arg \in 1..MaxAddr
    /\ (g.isSetup /\ g.hdr.request_type = 0 /\ g.hdr.request = 5) =>
          /\ g.inv = NoInv
          /\ daddr.ADD = last.addr

\* C3: once a SETUP is processed nothing the earlier transfer stored is sent
\* or invoked: a post-ACK callback or an OUT-data predicate that runs was
\* stored by the transfer of the last SETUP processed, and right after the
\* SETUP no deferred address is left and the TX remainder is what is left of
\* the new transfer's own data.
C3_NothingLeftOver ==
    /\ g.inv.cb # "None" => g.inv.cbAge = "cur"
    /\ g.rxInv \in {"none", "cur"}
    /\ g.isSetup =>
          /\ ctl.pending_address = "None"
          /\ ctl.setup_data.tag = "Tx" =>
                /\ g.isTx /\ ~g.done
                /\ ctl.setup_data.src = g.res.src
                /\ ctl.setup_data.off = g.log[1]
                /\ ctl.setup_data.off + ctl.setup_data.len = Min(g.L, g.R)

\* The last step processed a SETUP packet of at least eight bytes whose
\* request type and request are t and r.
SetupOf(t, r) ==
    /\ g.isSetup /\ g.rxlen >= MinSetupLen
    /\ g.hdr.request_type = t /\ g.hdr.request = r

\* The last step was the handling of an OUT data packet while OUT data was
\* expected (the stored header had a length other than 0).
OutDataStep == last.op = "ctl_rx_data" /\ last.len # 0

InitializeAll == [i \in 1..NumEndpoints |-> <<"initialize", i>>]

\* The empty ACK is armed: one empty packet, TX status valid.
AckArmed ==
    /\ g.log = <<0>> /\ g.done
    /\ bd_tx = chep_bd_tx(CTRL_TX_OFFSET, 0)
    /\ chep.STATTX = StatValid

\* Endpoint 0 is stalled in both directions.
Stalled == chep.STATRX = StatStall /\ chep.STATTX = StatStall

\* C5: a SET_CONFIGURATION SETUP with value 1 calls initialize() of each of
\* the seven endpoints exactly once, sets configured and answers with an
\* empty ACK.
C5_SetConfigurationOne ==
    (SetupOf(0, 9) /\ g.hdr.value_lo = 1) =>
        /\ calls = InitializeAll
        /\ ctl.configured
        /\ g.res = no_data
        /\ AckArmed

\* C5 witness: the SETUP found the device not configured.
C5_Witness ==
    /\ SetupOf(0, 9) /\ g.hdr.value_lo = 1
    /\ ~last.cfg /\ ctl.configured /\ Len(calls) = NumEndpoints

\* C6: a SET_CONFIGURATION SETUP with value 0 leaves configured as it was,
\* initializes no endpoint and is acknowledged with an empty packet; with a
\* value other than 0 or 1 it leaves configured as it was, initializes no
\* endpoint and ends with RX and TX status stalled.
C6_SetConfigurationOther ==
    /\ (SetupOf(0, 9) /\ g.hdr.value_lo = 0) =>
          /\ ctl.configured = last.cfg
          /\ calls = <<>>
          /\ AckArmed
    /\ (SetupOf(0, 9) /\ g.hdr.value_lo \notin {0, 1}) =>
          /\ ctl.configured = last.cfg
          /\ calls = <<>>
          /\ Stalled

\* C6 witness: value 0 arrives at a configured device, which stays so.
C6_Witness ==
    /\ SetupOf(0, 9) /\ g.hdr.value_lo = 0
    /\ last.cfg /\ ctl.configured /\ AckArmed

StandardPairs == {<<128, 0>>, <<0, 5>>, <<128, 6>>, <<0, 9>>, <<1, 11>>}

\* The calls when endpoint k is the first to want the request.
WantedBy(k) ==
    [i \in 1..(k - 1) |-> <<"setup_wanted_false", i>>]
    \o <<<<"setup_wanted_true", k>>, <<"setup_handler", k>>>>

\* The calls when no endpoint wants the request.
WantedByNone == [i \in 1..NumEndpoints |-> <<"setup_wanted_false", i>>]

C9_OfferOrder ==
    (g.isSetup /\ g.rxlen >= MinSetupLen) =>
        IF <<g.hdr.request_type, g.hdr.request>> \in StandardPairs
        THEN \A i \in 1..Len(calls) :
                calls[i][1] \notin
                    {"setup_wanted_true", "setup_wanted_false",
                     "setup_handler"}
        ELSE \/ calls = WantedByNone /\ g.res = ErrorResult
             \/ \E k \in EndPoints :
                    /\ calls = WantedBy(k)
                    /\ g.res \in EndpointResults(g.hdr)

\* C9 witness: ep1 and ep2 refused, ep3 took the request.
C9_Witness ==
    /\ g.isSetup /\ calls = WantedBy(3)
    /\ g.res.tag = "Tx" /\ g.res.cb = "ep_tx_cb"

\* C10: after a bus reset or a re-initialization every field of the control
\* state has its default value, and no callback or predicate stored before
\* it is invoked after it.
C10_ResetToDefault ==
    /\ last.reset => ctl = DefaultControl
    /\ g.inv.cbAge # "pre"
    /\ g.rxInv # "pre"

\* C10 witness: the dispatcher served a bus reset of a configured device.
C10_Witness ==
    /\ last.reset /\ last.op = "isr_entry" /\ last.cfg
    /\ ctl = DefaultControl

\* start_of_frame() of ep1 .. ep7, once each.
StartOfFrameAll == [i \in 1..NumEndpoints |-> <<"start_of_frame", i>>]

\* The steps in which the transfer-complete loop runs a completion handler.
HandlerSteps == {"ctl_tx", "ctl_rx_none", "ctl_rx_setup", "ctl_rx_data", "ep"}

\* C11: one invocation of the dispatcher serves the start of frame first,
\* then the bus reset, then the transfer completions until the
\* transfer-complete bit reads clear; a re-initialization is finished, with no
\* completion handler run, before the loop is entered.
C11_DispatcherOrder ==
    /\ last.op = "isr_entry" =>
          /\ pc = "loop"
          /\ calls = (IF last.sof THEN StartOfFrameAll ELSE <<>>)
                        \o (IF last.reset THEN InitializeAll ELSE <<>>)
          /\ g.inv = NoInv /\ g.rxInv = "none" /\ ~g.armed
          /\ last.reset =>
                /\ ctl = DefaultControl
                /\ daddr = [EF |-> TRUE, ADD |-> 0]
                /\ bd_rx = chep_block(MaxPacket, CTRL_RX_OFFSET)
    /\ last.op \in HandlerSteps =>
          \A i \in 1..Len(calls) : calls[i][1] # "start_of_frame"
    /\ last.op = "isr_return" => pc = "idle" /\ ~lat.CTR
    /\ pc = "idle" => last.op \notin HandlerSteps

\* C11 witness: the dispatcher found start of frame, bus reset and a transfer
\* completion asserted together, has served the first two and is about to run
\* the completion handler.
C11_Witness ==
    /\ last.op = "isr_entry" /\ last.sof /\ last.reset
    /\ pc = "loop" /\ lat.CTR
    /\ calls = StartOfFrameAll \o InitializeAll

\* C12: the acknowledge write clears only the flags that were set in the
\* value read, so no event is lost: a flag raised more often than served is
\* still set in ISTR or is in the value isr is serving.
C12_NoEventLost ==
    \A f \in IstrEvents :
        raised[f] > served[f] =>
            \/ f \in ISTR
            \/ isr_at \in {"read", "acked"} /\ f \in isr_istr

\* The last step processed a GET_DESCRIPTOR(device) SETUP with wLength n.
GetDeviceDescriptor(n) ==
    /\ SetupOf(128, 6) /\ g.hdr.value_hi = 1 /\ g.hdr.length = n
    /\ g.res = tx_data("device_desc", DeviceDescLen)

\* The last step handled the host's zero-length STATUS packet of a
\* GET_DESCRIPTOR(device) transfer with wLength n, its data having been sent.
DeviceDescriptorStatus(n) ==
    /\ last.op = "ctl_rx_data" /\ last.len = n /\ chep_bd_len(bd_rx) = 0
    /\ g.isTx /\ g.L = DeviceDescLen /\ g.R = n /\ g.done
    /\ g.arm = NoTag /\ g.vt = NoTag

\* The data stage of GET_DESCRIPTOR(device) with wLength n: one packet of
\* Min(n, 18) bytes is armed and no further packet follows it.
DeviceDescriptorData(n) ==
    /\ GetDeviceDescriptor(n) =>
          /\ g.log = <<Min(n, DeviceDescLen)>> /\ g.done
          /\ bd_tx = chep_bd_tx(CTRL_TX_OFFSET, Min(n, DeviceDescLen))
          /\ chep.STATTX = StatValid
          /\ ctl.setup_data = DefaultResult
    /\ (g.isTx /\ g.L = DeviceDescLen /\ g.R = n) =>
          g.log = <<Min(n, DeviceDescLen)>>

\* C13: GET_DESCRIPTOR(device) with wLength 18 against the 18-byte
\* descriptor: exactly one 18-byte packet is armed, the short flag is false,
\* and the host's zero-length STATUS packet is acknowledged without endpoint
\* 0 being stalled.
C13_DeviceDescriptorFull ==
    /\ DeviceDescriptorData(DeviceDescLen)
    /\ GetDeviceDescriptor(DeviceDescLen) => ~ctl.setup_short
    /\ DeviceDescriptorStatus(DeviceDescLen) =>
          /\ chep.STATTX # StatStall /\ chep.STATRX # StatStall
          /\ g.log = <<DeviceDescLen>>

\* C14: GET_DESCRIPTOR(device) with wLength 8 against the 18-byte
\* descriptor: exactly one 8-byte packet is armed, the short flag is true,
\* and the STATUS packet is acknowledged without endpoint 0 being stalled.
C14_DeviceDescriptorTruncated ==
    /\ DeviceDescriptorData(MinSetupLen)
    /\ GetDeviceDescriptor(MinSetupLen) => ctl.setup_short
    /\ DeviceDescriptorStatus(MinSetupLen) =>
          /\ chep.STATTX # StatStall /\ chep.STATRX # StatStall
          /\ g.log = <<MinSetupLen>>

\* What holds of the two transfers: the data stage is as claimed, the short
\* flag is false for both, and the STATUS packet finds no predicate stored
\* and leaves the TX status of endpoint 0 at stall.
DeviceDescriptorAsCoded ==
    \A n \in {MinSetupLen, DeviceDescLen} :
        /\ DeviceDescriptorData(n)
        /\ GetDeviceDescriptor(n) => ~ctl.setup_short
        /\ DeviceDescriptorStatus(n) =>
              /\ chep.STATTX = StatStall /\ chep.STATRX = StatValid
              /\ calls = <<>> /\ ctl.setup = DefaultHeader

\* C15: the completion callback of a Tx result runs only after the STATUS
\* stage of its transfer.  The STATUS stage of a transfer with IN data is the
\* host's OUT packet, so a TX completion is that of a STATUS packet only in a
\* transfer without data: a callback that tx_handler runs on the completion
\* of the last packet of its own transfer belongs to a zero-length transfer.
C15_CallbackAfterStatus ==
    (/\ g.inv.cb # "None" /\ g.inv.cbAge = "cur"
     /\ g.inv.vtAge = "cur" /\ g.inv.vtFinal) =>
        g.isTx /\ g.log = <<0>>

\* The step in which the dispatcher hands a SETUP of fewer than 8 bytes to
\* rx_handler.
ShortSetupStep ==
    /\ pc = "loop" /\ lat.CTR /\ lat.code = 16
    /\ chep.VTRX /\ chep.SETUP /\ chep_bd_len(bd_rx) < MinSetupLen
    /\ last'.op = "ctl_rx_setup"

\* C16 as claimed: a SETUP reported shorter than 8 bytes stalls endpoint 0,
\* invokes no handler, provider or endpoint, and leaves the control state as
\* it was before the packet.
C16_ShortSetupNoEffect ==
    [][ShortSetupStep =>
          /\ Stalled' /\ calls' = <<>>
          /\ ctl' = ctl]_vars

\* C16 as the code has it: a SETUP reported shorter than 8 bytes stalls
\* endpoint 0 and invokes nothing; the stored header, the TX remainder, the
\* deferred address and the OUT-data predicate of the transfer before it are
\* cleared, and the rest of the control state, the address register and the
\* TX buffer descriptor are left as they were.
C16_ShortSetupCancels ==
    [][ShortSetupStep =>
          /\ Stalled' /\ calls' = <<>>
          /\ g'.res = ErrorResult /\ g'.inv = NoInv /\ g'.rxInv = "none"
          /\ ctl' = [ctl EXCEPT !.setup = DefaultHeader,
                                !.setup_data = DefaultResult,
                                !.pending_address = "None",
                                !.pending_rx_cb = "None"]
          /\ daddr' = daddr /\ bd_tx' = bd_tx /\ cntr' = cntr]_vars

\* C16 witness: a short SETUP was processed by a configured device and
\* endpoint 0 is stalled.
C16_Witness ==
    /\ last.op = "ctl_rx_setup" /\ g.isSetup /\ g.rxlen < MinSetupLen
    /\ last.cfg /\ ctl.configured
    /\ Stalled /\ calls = <<>> /\ ctl.setup = DefaultHeader

\* C17: SetupHeader::new and SetupHeader::from_ptr give, for 8 bytes b0..b7
\* in memory, request_type = b0, request = b1, value_lo = b2, value_hi = b3,
\* index = b4 + 256*b5 and length = b6 + 256*b7.
C17_HeaderFields ==
    built # "none" =>
        setup_hdr = [request_type |-> mem[1], request |-> mem[2],
                     value_lo |-> mem[3], value_hi |-> mem[4],
                     index |-> mem[5] + 256 * mem[6],
                     length |-> mem[7] + 256 * mem[8]]

\* C17 witness: from_ptr built a header from bytes that differ in every field:
\* index 0x01ff and length 0xff00.
C17_Witness ==
    /\ built = "from_ptr"
    /\ mem = <<1, 255, 0, 1, 255, 1, 0, 255>>
    /\ setup_hdr.index = 511 /\ setup_hdr.length = 65280

\* The UTF-16 encoding of a char: itself below U+10000, else the surrogate
\* pair 0xD800 + (x >> 10), 0xDC00 + (x & 0x3ff) with x = char - 0x10000.
Utf16Char(c) ==
    IF c < 65536 THEN <<c>>
    ELSE <<55296 + ((c - 65536) \div 1024), 56320 + ((c - 65536) % 1024)>>

\* The UTF-16 encoding of a string.
RECURSIVE Utf16(_)
Utf16(s) == IF s = <<>> THEN <<>> ELSE Utf16Char(Head(s)) \o Utf16(Tail(s))

\* C18: str_utf16_count returns the number of UTF-16 code units of the
\* string, and str_to_utf16_inplace fills a buffer of that length with the
\* UTF-16 encoding of the string, without running past its end.
C18_Utf16 ==
    /\ stage # "start" => units = Len(Utf16(text))
    /\ stage = "filled" => place = Utf16(text)
    /\ stage # "panic"

\* C18 witness: "a", U+1F534, U+10FFFF filled in as 0061 D83D DD34 DBFF DFFF.
C18_Witness ==
    /\ stage = "filled"
    /\ text = <<97, 128308, 1114111>>
    /\ units = 5
    /\ place = <<97, 55357, 56628, 56319, 57343>>

\* The dispatch result of the SETUP just processed is Rx(len, cb) with len
\* equal to the header's wLength and not 0.
RxAccepted(h) ==
    /\ h.isSetup /\ h.res.tag = "Rx"
    /\ h.res.len = h.hdr.length /\ h.res.len # 0

\* The dispatch result of the SETUP just processed is Rx(len, cb) with len 0
\* or other than the header's wLength.
RxRefused(h) ==
    /\ h.isSetup /\ h.res.tag = "Rx"
    /\ h.res.len # h.hdr.length \/ h.res.len = 0

\* C19: the step that processes a SETUP whose dispatch result is Rx(len, cb)
\* with len = wLength and len # 0 ends with RX status valid, the RX data
\* toggle 1, cb stored as the OUT-data predicate, and the TX status as it was
\* before the step.
C19_RxArmed ==
    [][(last'.op = "ctl_rx_setup" /\ RxAccepted(g')) =>
          /\ chep'.STATRX = StatValid
          /\ chep'.DTOGRX
          /\ ctl'.pending_rx_cb = g'.res.cb
          /\ chep'.STATTX = chep.STATTX]_vars

\* C19 witness: ep_rx_cb is stored for 8 bytes of OUT data and the reception
\* is armed.
C19_Witness ==
    /\ RxAccepted(g) /\ g.res = RxResult(MinSetupLen, "ep_rx_cb")
    /\ ctl.pending_rx_cb = "ep_rx_cb"
    /\ chep.STATRX = StatValid /\ chep.DTOGRX /\ chep.STATTX = StatNak

\* C20: a SETUP whose dispatch result is Rx(len, cb) with len = 0 or len
\* other than wLength ends with RX and TX status at stall and the stored
\* header cleared; cb is not stored and not invoked, and it never is later:
\* a predicate is invoked only for an OUT packet that finds it stored, and
\* the only SETUP that leaves a predicate stored is one whose Rx result was
\* accepted.
C20_RxRefused ==
    /\ RxRefused(g) =>
          /\ Stalled
          /\ ctl.setup = DefaultHeader
          /\ ctl.pending_rx_cb = "None" /\ g.rxAge = "none"
          /\ g.rxInv = "none"
          /\ \A i \in 1..Len(calls) : calls[i][1] # g.res.cb
    /\ g.rxInv # "none" =>
          /\ last.op = "ctl_rx_data" /\ last.len # 0 /\ last.rxcb # "None"
          /\ calls = <<<<last.rxcb, 0>>>>
    /\ (g.isSetup /\ ctl.pending_rx_cb # "None") =>
          RxAccepted(g) /\ ctl.pending_rx_cb = g.res.cb

\* C20 witness: an endpoint answered a SETUP with wLength 8 by Rx(9, cb) and
\* endpoint 0 is stalled with nothing stored.
C20_Witness ==
    /\ RxRefused(g) /\ g.hdr.length = MinSetupLen
    /\ g.res = RxResult(MinSetupLen + 1, "ep_rx_cb")
    /\ Stalled /\ ctl.pending_rx_cb = "None" /\ ctl.setup = DefaultHeader

\* The last step was tx_handler on a TX completion with no TX remainder
\* pending: it armed no packet.
TxCompletionNoRemainder == last.op = "ctl_tx" /\ ~g.armed

\* What tx_handler does on such a completion whatever transfer the callback
\* comes from: a stored callback is invoked once and removed and the stored
\* header cleared, RX status ends valid with RX data toggle 0.
TxCompletionAsCoded ==
    TxCompletionNoRemainder =>
        /\ ctl.pending_tx_cb = "None"
        /\ g.inv.cb # "None" =>
              /\ calls = <<<<g.inv.cb, g.inv.arg>>>>
              /\ ctl.setup = DefaultHeader
        /\ g.inv.cb = "None" => calls = <<>>
        /\ chep.STATRX = StatValid /\ ~chep.DTOGRX /\ ~chep.VTTX

\* C21: on a TX completion with no TX remainder pending a stored post-ACK
\* callback is invoked exactly once, with the SETUP header of the transfer
\* that supplied it (the transfer in progress; for the address callback a
\* SET_ADDRESS header, whose value is an address the host assigns), the slot
\* is then empty and the stored header cleared; in every case RX status ends
\* valid with RX data toggle 0.
C21_TxCompletion ==
    /\ TxCompletionAsCoded
    /\ (TxCompletionNoRemainder /\ g.inv.cb # "None") =>
          /\ g.inv.cbAge = "cur"
          /\ g.inv.cb = "do_set_address" => g.inv.arg \in 1..MaxAddr

\* The last step was the handling of a non-SETUP packet while the stored
\* header's length was 0.
DropStep == last.op = "ctl_rx_data" /\ last.len = 0

\* C22: a non-SETUP packet received while the stored header's length is 0 is
\* discarded: the TX remainder is cleared, RX status becomes valid, TX status
\* NAK, and neither a completion predicate nor a callback is invoked (what is
\* stored stays stored).
C22_PacketDropped ==
    DropStep =>
        /\ ctl.setup_data = DefaultResult
        /\ chep.STATRX = StatValid /\ chep.STATTX = StatNak /\ ~chep.VTRX
        /\ calls = <<>> /\ g.rxInv = "none" /\ g.inv = NoInv
        /\ ctl.pending_rx_cb = last.rxcb
        /\ ~g.armed

\* C22 witness: the host sent an OUT packet after the last TX packet of the
\* transfer in progress had completed and the header had been cleared; the
\* packet is dropped with nothing invoked.
C22_Witness ==
    /\ DropStep /\ g.isTx /\ g.vt.age = "cur"
    /\ chep.STATRX = StatValid /\ chep.STATTX = StatNak /\ calls = <<>>

\* C23: a non-SETUP packet received while OUT data is expected makes the
\* stored completion predicate run exactly once and removes it; if it answers
\* true an empty TX packet is armed with TX status valid, if it answers false
\* TX status is stall (as it is when no predicate is stored, and then nothing
\* is invoked); either way the stored header is cleared and RX status valid.
C23_OutData ==
    OutDataStep =>
        /\ ctl.pending_rx_cb = "None"
        /\ ctl.setup = DefaultHeader
        /\ chep.STATRX = StatValid /\ ~chep.VTRX
        /\ calls = IF last.rxcb = "None" THEN <<>> ELSE <<<<last.rxcb, 0>>>>
        /\ (last.rxcb # "None" /\ g.rxOk) =>
              /\ chep.STATTX = StatValid
              /\ bd_tx = chep_bd_tx(CTRL_TX_OFFSET, 0)
        /\ (last.rxcb = "None" \/ ~g.rxOk) => chep.STATTX = StatStall

\* C23 witness: the predicate of the transfer in progress ran and refused
\* the data, the endpoint is stalled for the STATUS stage.
C23_Witness ==
    /\ OutDataStep /\ calls = <<<<"ep_rx_cb", 0>>>> /\ g.rxInv = "cur"
    /\ ~g.rxOk /\ chep.STATTX = StatStall /\ chep.STATRX = StatValid

\* The other answer: the predicate accepted the data and the empty STATUS
\* packet is armed.
OutDataAccepted ==
    /\ OutDataStep /\ calls = <<<<"ep_rx_cb", 0>>>> /\ g.rxOk
    /\ chep.STATTX = StatValid

\* The handler the loop is to call for a completion code.
ExpectedHandler(code) ==
    IF code = 0 THEN <<"control_tx_handler", 0>>
    ELSE IF code = 16 THEN <<"control_rx_handler", 0>>
    ELSE IF code < 16 THEN <<"tx_handler", code>>
    ELSE <<"rx_handler", code - 16>>

\* The codes whose handler this invocation has called.
HandledCodes == {handled[i].code : i \in DOMAIN handled}

\* C24: each turn of the transfer-complete loop calls exactly one handler,
\* the one of the code read: control TX and RX for 0 and 16, endpoint n's
\* tx_handler for n in 1..7 and its rx_handler for 16 + n; ISTR is read again
\* after every call and the loop goes on while CTR reads set, so that when it
\* ends on CTR clear every completion that was pending at entry has been
\* served in this invocation.
C24_LoopDispatch ==
    /\ \A i \in DOMAIN handled :
          /\ handled[i].code \in KnownCodes
          /\ handled[i].fn = ExpectedHandler(handled[i].code)
    /\ loop_pc = "loop" => reads = Len(handled) + 1
    /\ left = "end" =>
          /\ loop_pc = "idle" /\ ~loop_istr.CTR
          /\ reads = Len(handled) + 1
          /\ at_entry \subseteq HandledCodes

\* C24 witness: two completions were pending at entry, endpoint 7's TX and
\* endpoint 1's RX; both handlers ran in the one invocation.
C24_Witness ==
    /\ left = "end" /\ at_entry = {7, 17}
    /\ Len(handled) = 2
    /\ \E i, j \in DOMAIN handled :
          /\ handled[i].fn = <<"tx_handler", 7>>
          /\ handled[j].fn = <<"rx_handler", 1>>

\* The loop holds a completion code it has no arm for.
UnknownCodeRead ==
    loop_pc = "loop" /\ loop_istr.CTR /\ loop_istr.code \notin KnownCodes

\* C25: on a code that is none of 0..7 and 16..23 the loop calls no handler
\* and is left at once, without another read; and every invocation of the
\* dispatcher comes to its end unless a handler it called left the flag it
\* was called for.
C25_LoopTerminates ==
    /\ [][UnknownCodeRead =>
             /\ handled' = handled /\ reads' = reads
             /\ loop_pc' # loop_pc => (loop_pc' = "idle" /\ left' = "break")
         ]_loopVars
    /\ [](left = "break" =>
             /\ loop_pc = "idle" /\ loop_istr.code \notin KnownCodes
             /\ reads = Len(handled) + 1)
    /\ (loop_pc = "loop") ~> (loop_pc = "idle" \/ kept)

\* C25 witness: the loop was left on an unknown code after it had served a
\* completion, the unknown one still pending.
C25_Witness ==
    /\ left = "break" /\ loop_pc = "idle"
    /\ Len(handled) = 1 /\ ~kept
    /\ loop_istr.code \in pend

\* The size in bytes of the receive block a buffer descriptor's block-size
\* code stands for: units of 32 bytes from code 32 on, of 2 bytes below.
BlockBytes(code) == IF code >= 32 THEN (code - 31) * 32 ELSE code * 2

\* The dispatcher has just served a bus reset.
ResetServed == last.op = "isr_entry" /\ last.reset

\* C26: when the dispatcher has served a bus reset, the device address is 0
\* with the function enabled, the reset, transfer-complete and start-of-frame
\* interrupts are enabled, the control RX buffer descriptor describes a block
\* of 64 bytes at the control RX offset, both data toggles of endpoint 0 are
\* 0 and its RX status is valid, and initialize() of each of the seven
\* Endpoint Capabilities has been called exactly once.
C26_AfterBusReset ==
    ResetServed =>
        /\ daddr.ADD = 0 /\ daddr.EF
        /\ cntr.RST_DCONM /\ cntr.CTRM /\ cntr.SOFM /\ ~cntr.PDWN
        /\ bd_rx.offset = CTRL_RX_OFFSET /\ BlockBytes(bd_rx.code) = 64
        /\ bd_rx.count = 0
        /\ ~chep.DTOGRX /\ ~chep.DTOGTX /\ chep.STATRX = StatValid
        /\ \A i \in 1..NumEndpoints :
              Cardinality({k \in DOMAIN calls : calls[k] = <<"initialize", i>>})
                  = 1

\* C26 witness: the bus was reset in the middle of a control transfer, a TX
\* completion unserved; the dispatcher has served the reset.
C26_Witness ==
    /\ ResetServed /\ ~last.sof /\ lat.CTR /\ lat.code = 0
    /\ daddr = [EF |-> TRUE, ADD |-> 0]
    /\ chep.STATRX = StatValid /\ calls = InitializeAll

\* C27: a write composed with stat_rx, stat_tx, dtogrx or dtogtx from the
\* value just read leaves each named field equal to its target and every
\* status and data-toggle field that is not named as it was.
C27_WriteReachesTarget ==
    chep_stage = "written" =>
        /\ chep_now.STATRX = IF chep_named.stat_rx >= 0
                             THEN chep_named.stat_rx ELSE chep_read.STATRX
        /\ chep_now.STATTX = IF chep_named.stat_tx >= 0
                             THEN chep_named.stat_tx ELSE chep_read.STATTX
        /\ chep_now.DTOGRX = IF chep_named.dtogrx >= 0
                             THEN chep_named.dtogrx = 1 ELSE chep_read.DTOGRX
        /\ chep_now.DTOGTX = IF chep_named.dtogtx >= 0
                             THEN chep_named.dtogtx = 1 ELSE chep_read.DTOGTX

\* C27 witness: from RX stalled and TX valid with both toggles set, a write
\* naming RX status valid and TX toggle 0 has changed just these two.
C27_Witness ==
    /\ chep_stage = "written"
    /\ chep_read.STATRX = StatStall /\ chep_read.STATTX = StatValid
    /\ chep_read.DTOGRX /\ chep_read.DTOGTX
    /\ chep_named = [stat_rx |-> StatValid, stat_tx |-> -1, dtogrx |-> -1,
                     dtogtx |-> 0]
    /\ chep_now.STATRX = StatValid /\ chep_now.STATTX = StatValid
    /\ chep_now.DTOGRX /\ ~chep_now.DTOGTX

\* The block sizes chep_block has a code for.
BlockSizeValid(B) ==
    \/ B = 1023
    \/ B > 0 /\ B % 32 = 0 /\ B <= 1024
    \/ B % 2 = 0 /\ B < 64

\* C28: chep_block<B>(offset) panics when offset + B > 2048 or when B is none
\* of 1023, a positive multiple of 32 up to 1024, an even number below 64;
\* otherwise it returns the offset with the block-size code in the top six
\* bits and nothing in between: B/32 + 31 for a multiple of 32, B/2 for
\* another even size below 64, and 63 (0xfc000000) for 1023.
C28_BlockDescriptor ==
    blk_stage = "done" =>
        IF blk_offset + blk_size > 2048 \/ ~BlockSizeValid(blk_size)
        THEN blk_value = BlockPanic
        ELSE /\ blk_value.offset = blk_offset
             /\ blk_value.count = 0
             /\ blk_value.code =
                    IF blk_size = 1023 THEN 63
                    ELSE IF blk_size % 32 = 0 /\ blk_size > 0
                    THEN (blk_size \div 32) + 31
                    ELSE blk_size \div 2

\* C28 witness: a block of 32 bytes, which is both a multiple of 32 and an
\* even size below 64, gets the code of the multiples of 32, at the last
\* offset that leaves room for it.
C28_Witness ==
    /\ blk_stage = "done" /\ blk_size = 32 /\ blk_offset = 2016
    /\ blk_value = [code |-> 32, count |-> 0, offset |-> 2016]

\* The panics: a block that does not fit, and a size without a code.
BlockPanics ==
    /\ blk_stage = "done" /\ blk_value = BlockPanic
    /\ \/ blk_size = 64 /\ blk_offset = 2016
       \/ blk_size = 66 /\ blk_offset = 0

\* Slot x lies in the region [r, w) of the ring.
InRegion(x, r, w) == wrapping_sub(x, r) < wrapping_sub(w, r)

\* C29: write_bytes stores a byte only into a slot outside the region
\* [r, published w) the interrupt routine may read, and only when r is not one
\* ahead of its w; the bytes stored and unsent are those from r to the
\* writer's w and never more than 255; and the region the interrupt routine
\* reads holds exactly the stored bytes a published index covers.
C29_RingNeverOverwritten ==
    /\ ring_pc = "store" =>
          /\ ~InRegion(ring_lw, ring_r, ring_w)
          /\ wrapping_sub(ring_r, ring_lw) # 1
    /\ ring_stored <= RingSize - 1
    /\ ring_stored = wrapping_sub(ring_lw, ring_r)
    /\ ring_pub = wrapping_sub(ring_w, ring_r)
    /\ ring_pub <= ring_stored

\* C29 witness: the ring is full with 255 bytes unsent, the indices having
\* wrapped around, and write_bytes waits.
C29_Witness ==
    /\ ring_pc = "full" /\ ring_stored = RingSize - 1
    /\ ring_lw < ring_r /\ ring_r > FIFO_SIZE

\* C30: once i2c_isr has seen a STOP while the write-to-read transition was
\* pending (pending_len not 0, TC clear, no error flag set), and as long as no
\* error flag is raised, the transaction does not complete: the read phase
\* is not started, the DMA-RX flag stays outstanding and the caller is not
\* back from wait().
C30_StopWhilePendingHangs ==
    (i2c_hung /\ ~i2c_errs) =>
        /\ ~i2c_read
        /\ pending_len = 0
        /\ F_DMA_RX \in outstanding
        /\ i2c_caller \in {"wait", "panic"}

\* C30 witness: after the STOP the TX channel has finished and nothing more
\* happens; the caller waits on the DMA-RX flag alone.
C30_Witness ==
    /\ i2c_hung /\ ~i2c_errs /\ i2c_caller = "wait"
    /\ outstanding = {F_DMA_RX}
    /\ i2c_status = NoStatus /\ i2c_phase = "idle"

\* After the STOP the write phase went on to its end: i2c_isr found transfer
\* complete with nothing pending and panicked.
StopThenPanic ==
    /\ i2c_hung /\ ~i2c_errs /\ i2c_caller = "panic" /\ i2c_status.TC

(* -------------------- one data phase at a time (C31) ------------------- *)

\* C31: the control engine never holds a TX remainder (setup_data is Tx) and
\* an OUT-data completion predicate (pending_rx_cb is Some) together: a
\* control transfer is in at most one of the IN-data and OUT-data phases.
C31_OneDataPhase ==
    ~(ctl.setup_data.tag = "Tx" /\ ctl.pending_rx_cb # "None")

\* C31 witness: a SETUP asking for OUT data was processed and its predicate
\* stored while a packet of an earlier transfer that still had IN data to
\* send had completed unserved; the remainder of that transfer is gone.
C31_Witness ==
    /\ g.isSetup /\ ctl.pending_rx_cb # "None"
    /\ g.vt.age = "old" /\ ~g.vt.final /\ chep.VTTX
    /\ ctl.setup_data.tag # "Tx"

(* --------- an older TX completion served after a new SETUP (C32) ------- *)

\* The dispatcher serves a TX completion of endpoint 0 that is older than the
\* last SETUP processed: the packet that completed was armed by an earlier
\* transfer and its completion was still flagged when the SETUP was handled.
OlderTxServed ==
    /\ pc = "loop" /\ lat.CTR /\ lat.code = 0
    /\ chep.VTTX /\ g.vt.age = "old"
    /\ last'.op = "ctl_tx"

\* Serving the older completion invokes a callback the new transfer stored.
OlderTxRunsNewCallback ==
    OlderTxServed /\ g'.inv.cb # "None" /\ g'.inv.cbAge = "cur"

\* Serving the older completion arms the next packet of the new transfer's
\* data while its first packet is still armed and untransmitted.
OlderTxReplacesPacket ==
    OlderTxServed /\ g.arm.age = "cur" /\ g'.armed

\* C32: serving the TX completion of the previous transfer after the new
\* SETUP does not consume the new transfer's state: it does not invoke the
\* new transfer's completion callback and does not replace the new transfer's
\* first data packet by its second before the first has been transmitted.
C32_OlderTxHarmless ==
    [][~OlderTxRunsNewCallback /\ ~OlderTxReplacesPacket]_vars

\* The first half of C32 alone: no callback of the new transfer is invoked.
C32_NoNewCallback == [][~OlderTxRunsNewCallback]_vars

\* The second half of C32 alone: no packet of the new transfer is replaced.
C32_NoPacketReplaced == [][~OlderTxReplacesPacket]_vars

(* ------------- which completion flag a handler clears (C33) ------------ *)

\* C33: the writes of the control RX handler clear the RX transaction-complete
\* flag and leave the TX one as it is, the writes of the control TX handler
\* clear the TX flag and leave the RX one as it is, and the re-initialization
\* on a bus reset leaves both as they are: a completion of the other
\* direction that is pending stays pending until its own handler runs.
C33_OwnFlagOnly ==
    [][/\ last'.op \in {"ctl_rx_setup", "ctl_rx_data"} =>
             ~chep'.VTRX /\ chep'.VTTX = chep.VTTX
       /\ (last'.op = "ctl_tx" /\ chep.VTTX) =>
             ~chep'.VTTX /\ chep'.VTRX = chep.VTRX
       /\ (last'.op = "isr_entry" /\ last'.reset) =>
             chep'.VTRX = chep.VTRX /\ chep'.VTTX = chep.VTTX]_vars

\* C33 witness: rx_handler has served a SETUP while a TX completion was
\* pending; the RX flag is clear, the TX flag still set, and the dispatcher
\* holds the TX completion code for its next turn.
C33_Witness ==
    /\ last.op = "ctl_rx_setup" /\ ~chep.VTRX /\ chep.VTTX
    /\ pc = "loop" /\ lat.CTR /\ lat.code = 0

(* ------------- a handler called with its flag clear (C34) -------------- *)

\* C34: tx_handler called while the TX transaction-complete flag is clear, and
\* rx_handler called while the RX transaction-complete flag is clear, return
\* with the control state, the endpoint register, both buffer descriptors and
\* the address register as they were, and invoke no callback.
C34_FlagClearNoEffect ==
    /\ (hnd_op = "tx" /\ ~hnd_m.chep.VTTX) =>
          /\ hnd_out.ctl = hnd_m.ctl /\ hnd_out.chep = hnd_m.chep
          /\ hnd_out.bd_tx = hnd_m.bd_tx /\ hnd_out.bd_rx = hnd_m.bd_rx
          /\ hnd_out.daddr = hnd_m.daddr /\ hnd_out.calls = <<>>
    /\ (hnd_op = "rx" /\ ~hnd_m.chep.VTRX) =>
          /\ hnd_out.ctl = hnd_m.ctl /\ hnd_out.chep = hnd_m.chep
          /\ hnd_out.bd_tx = hnd_m.bd_tx /\ hnd_out.bd_rx = hnd_m.bd_rx
          /\ hnd_out.daddr = hnd_m.daddr /\ hnd_out.calls = <<>>

\* C34 witness: tx_handler was called with the TX flag clear on an engine that
\* holds a SET_ADDRESS callback, while an RX completion with SETUP is flagged;
\* it returned and the callback is still stored.
C34_Witness ==
    /\ hnd_op = "tx" /\ ~hnd_m.chep.VTTX /\ hnd_m.chep.VTRX /\ hnd_m.chep.SETUP
    /\ hnd_m.ctl.pending_tx_cb = "do_set_address"
    /\ hnd_out.ctl.pending_tx_cb = "do_set_address"

\* The handlers do act when their flag is set: the callback is invoked, the
\* SETUP is dispatched.
HandlersAct ==
    /\ (hnd_op = "tx" /\ hnd_m.chep.VTTX /\ hnd_m.ctl.pending_tx_cb # "None"
        /\ hnd_m.ctl.setup_data.tag # "Tx") => hnd_out.calls # <<>>
    /\ (hnd_op = "rx" /\ hnd_m.chep.VTRX) => hnd_out.chep # hnd_m.chep

(* ------------- distinct sizes, distinct descriptors (C35) -------------- *)

\* C35: for a fixed offset chep_block gives distinct accepted block sizes
\* distinct descriptor values: the value returned for blk_size is returned
\* for no other size at the same offset.
C35_BlockInjective ==
    (blk_stage = "done" /\ blk_value # BlockPanic) =>
        \A B \in SizeSamples \ {blk_size} :
            chep_block(B, blk_offset) # blk_value

\* What does hold: two sizes share a descriptor value only when they are 1023
\* and 1024, which both get the code 63.
BlockInjectiveBut1023 ==
    (blk_stage = "done" /\ blk_value # BlockPanic) =>
        \A B \in SizeSamples \ {blk_size} :
            chep_block(B, blk_offset) = blk_value =>
                {B, blk_size} = {1023, 1024} /\ blk_value.code = 63

\* The sizes 1023 and 1024 at offset 0: one value for both.
BlockSharedCode ==
    /\ blk_stage = "done" /\ blk_size = 1023 /\ blk_offset = 0
    /\ blk_value = chep_block(1024, 0)

(* ------------- what reaches the transmit register (C36) ---------------- *)

\* C36: with one caller of write_bytes the bytes written to TDR are the bytes
\* passed to write_bytes, each once and in the order they were passed: at any
\* moment TDR has received the first bytes passed, none of them before
\* write_bytes stored it, and once write_bytes has returned and the read index
\* has caught up with the write index it has received all of them.
C36_TdrAsWritten ==
    /\ dbg_tdr = [i \in 1..Len(dbg_tdr) |-> i - 1]
    /\ Len(dbg_tdr) <= dbg_passed - dbg_left
    /\ (dbg_pc = "idle" /\ dbg_r = dbg_w) => Len(dbg_tdr) = dbg_passed

\* C36 witness: 260 bytes were passed in at least two calls, one of them
\* longer than the ring, the indices have wrapped, and TDR has received all
\* 260.
C36_Witness ==
    /\ dbg_pc = "idle" /\ dbg_ncalls >= 2
    /\ dbg_passed = MaxPassed /\ Len(dbg_tdr) = MaxPassed
    /\ dbg_r = dbg_w /\ dbg_w = MaxPassed - RingSize

(* ---------------------- one run of the debug ISR (C37) ------------------ *)

\* A run of isr, as the interrupt or from push().
IsrStep == DbgInterrupt \/ DbgPushIsr

\* C37: a run of isr writes to TDR only when it finds the transmit FIFO empty
\* (otherwise it changes nothing), writes at most FIFO_SIZE = 8 bytes, moves
\* the read index by as many slots and not beyond the published write index,
\* and clears TXFEIE when the read index has reached the write index and
\* leaves it alone when it has not.
C37_IsrRun ==
    [][IsrStep =>
         /\ ~dbg_txfe => UNCHANGED <<dbg_r, dbg_tdr, dbg_txfeie, dbg_txfe>>
         /\ dbg_txfe =>
              /\ Len(dbg_tdr') - Len(dbg_tdr) <= FIFO_SIZE
              /\ wrapping_sub(dbg_r', dbg_r) = Len(dbg_tdr') - Len(dbg_tdr)
              /\ wrapping_sub(dbg_r', dbg_r) <= wrapping_sub(dbg_w, dbg_r)
              /\ dbg_txfeie' = (dbg_txfeie /\ dbg_r' # dbg_w)]_uartVars

\* C37 witness: isr has run once on a full ring: it sent FIFO_SIZE bytes and
\* stopped short of the write index, leaving TXFEIE set and the FIFO filled.
C37_Witness ==
    /\ Len(dbg_tdr) = FIFO_SIZE /\ dbg_r = FIFO_SIZE
    /\ dbg_w = RingSize - 1
    /\ dbg_txfeie /\ ~dbg_txfe

\* isr called from push() while the FIFO still holds bytes: the ring is full
\* and nothing is sent.
IsrFifoBusy ==
    /\ dbg_pc = "push" /\ ~dbg_txfe /\ dbg_r # dbg_w

(* --------------- buffered bytes are transmitted (C38) ------------------ *)

\* write_bytes has returned and bytes it published are unsent.
UnsentAtReturn == dbg_pc = "idle" /\ dbg_r # dbg_w

\* C38: whenever write_bytes has returned and unsent bytes remain in the ring
\* the FIFO-empty interrupt is enabled, whatever ran between the write of w
\* and the write of CR1; and with the transmitter emptying its FIFO and the
\* interrupt being taken, every byte stored is eventually written to TDR and
\* a write_bytes that found the ring full eventually stores its byte.
C38_EventuallySent ==
    /\ [](UnsentAtReturn => dbg_txfeie)
    /\ (Len(dbg_tdr) < dbg_passed - dbg_left)
          ~> (Len(dbg_tdr) = dbg_passed - dbg_left)
    /\ (dbg_pc = "publish") ~> (dbg_pc = "store")

\* C38 witness: write_bytes has returned from a call that had to wait for
\* room; bytes are unsent, the FIFO is filled and the interrupt is enabled.
C38_Witness ==
    /\ UnsentAtReturn /\ dbg_txfeie /\ ~dbg_txfe
    /\ dbg_passed > RingSize /\ Len(dbg_tdr) < dbg_passed

\* Between the two writes of the last enable isr sent everything published
\* and cleared TXFEIE: write_bytes sets it again with nothing left to send.
EnableAfterDrain ==
    /\ dbg_pc = "last_cr1" /\ dbg_r = dbg_w /\ ~dbg_txfeie
    /\ Len(dbg_tdr) = dbg_passed /\ dbg_passed > 0

(* ------------------ the result of an I2C wait (C39) -------------------- *)

\* Wait::wait hands its result to the caller.
WaitReturns == i2c_caller = "waited" /\ i2c_caller' = "idle" /\ i2c_ret' # "none"

\* C39: when Wait::wait returns, no completion flag of the transaction is
\* outstanding; it returns Err exactly when i2c_isr recorded an error since
\* the transaction was armed; and that error is one whose flag the peripheral
\* raised since the arming, never one of an earlier transaction.
C39_WaitResult ==
    [][WaitReturns =>
          /\ outstanding = {}
          /\ (i2c_ret' = "Err") = i2c_rec
          /\ i2c_ret' = "Err" => i2c_errs]_i2cVars

\* C39 witness: a transaction that ended in an error was reported as Err and
\* the next one, armed after it, has run to its end without an error flag and
\* was reported as Ok.
C39_Witness ==
    /\ i2c_prev = "Err"
    /\ i2c_ret = "Ok" /\ i2c_caller = "idle"
    /\ i2c_read /\ ~i2c_errs /\ ~i2c_rec
    /\ error = 0 /\ outstanding = {}

\* A wait returned Err: the error branch of i2c_isr had emptied outstanding.
WaitReturnedErr ==
    /\ i2c_ret = "Err" /\ i2c_caller = "idle" /\ i2c_errs /\ i2c_rec
    /\ error = 1 /\ outstanding = {}

=============================================================================
